---- MODULE Spec2Model ----
(***************************************************************************)
(* Privacy resolution and visibility-aware aggregation of trading-squad.   *)
(* The persisted records (user privacy defaults, workspace privacy policy, *)
(* workspace member rows with their override, brokerage accounts and       *)
(* portfolio snapshots) are the state; the resolvers of                    *)
(* lib/privacy-resolver.ts and lib/privacy-utils.ts are operators; the     *)
(* request handlers are actions that read the records and leave a          *)
(* response.                                                               *)
(***************************************************************************)
EXTENDS Integers, Sequences, FiniteSets, TLC

VARIABLES privacyDefaults, privacyPolicy, workspaceMembers, brokerageAccounts,
          portfolioSnapshots, edits, resolved, effective, response,
          snaptradeUsers, brokerageConnections, inFlight, workspaceActivities

vars == <<privacyDefaults, privacyPolicy, workspaceMembers, brokerageAccounts,
          portfolioSnapshots, edits, resolved, effective, response,
          snaptradeUsers, brokerageConnections, inFlight, workspaceActivities>>

\* ---------------------------------------------------------------- bounds
MaxEdits == 3

MaxSnapshots == 2

MaxBuckets == 3

MaxPositions == 2

MaxStoredSnapshots == 3

\* ------------------------------------------------------------ JSON values
Users == {"u1", "u2", "u3"}

Undefined == "undefined"

Null == [null |-> "null"]

None == [kind |-> "none"]

Get(obj, key) == IF key \in DOMAIN obj THEN obj[key] ELSE Undefined

\* { ...a, ...b }
Spread(a, b) == [k \in (DOMAIN a) \cup (DOMAIN b) |-> IF k \in DOMAIN b THEN b[k] ELSE a[k]]

Fields == {"portfolioValue", "performance", "positions", "activity", "watchlist"}

\* the value scale of each field, low to high disclosure
hierarchies ==
  [portfolioValue |-> <<"hidden", "approximate", "exact">>,
   performance    |-> <<"hidden", "visible">>,
   positions      |-> <<"hidden", "tickers_only", "full">>,
   activity       |-> <<"hidden", "without_amounts", "full">>,
   watchlist      |-> <<"hidden", "visible">>]

ScaleOf(f) == {hierarchies[f][i] : i \in 1..Len(hierarchies[f])}

\* every total PrivacySettings value
PrivacySettings == [portfolioValue : ScaleOf("portfolioValue"),
                    performance    : ScaleOf("performance"),
                    positions      : ScaleOf("positions"),
                    activity       : ScaleOf("activity"),
                    watchlist      : ScaleOf("watchlist")]

DEFAULT_PRIVACY ==
  [portfolioValue |-> "approximate", performance |-> "visible",
   positions |-> "tickers_only", activity |-> "without_amounts",
   watchlist |-> "visible"]

\* column default of Workspace.privacyPolicy
DefaultPolicy ==
  [minimumSharing |-> [portfolioValue |-> "approximate", performance |-> "visible",
                       positions |-> "tickers_only", activity |-> "without_amounts"],
   enforcedTransparency |-> FALSE,
   allowAnonymousMode |-> FALSE]

\* Array.prototype.indexOf: 0-based position, -1 when absent
indexOf(seq, v) ==
  IF \E i \in 1..Len(seq) : seq[i] = v
    THEN (CHOOSE i \in 1..Len(seq) : seq[i] = v /\ \A j \in 1..(i - 1) : seq[j] # v) - 1
    ELSE -1

\* ------------------------------------------- lib/privacy-resolver.ts
maxPrivacy_least(field, a, b) ==
  LET hierarchy == hierarchies[field]
      aIndex == indexOf(hierarchy, a)
      bIndex == indexOf(hierarchy, b)
  IN IF aIndex > bIndex THEN b ELSE a

maxPrivacy(field, a, b) ==
  LET hierarchy == hierarchies[field]
      aIndex == indexOf(hierarchy, a)
      bIndex == indexOf(hierarchy, b)
  IN IF aIndex > bIndex THEN a ELSE b

resolveField(field, override, userDefault, minimum) ==
  LET value == IF override # Undefined THEN override ELSE userDefault
  IN maxPrivacy(field, value, minimum)

\* the member row of a user, or Null (prisma.workspaceMember.findUnique)
findMember(rows, userId) ==
  IF \E i \in 1..Len(rows) : rows[i].userId = userId
    THEN rows[CHOOSE i \in 1..Len(rows) : rows[i].userId = userId]
    ELSE Null

isMember(rows, userId) == \E i \in 1..Len(rows) : rows[i].userId = userId

\* workspacePolicy?.enforcedTransparency, as a condition
enforced(policy) ==
  policy # Null /\ "enforcedTransparency" \in DOMAIN policy /\ policy.enforcedTransparency

\* workspacePolicy?.minimumSharing, as a condition
hasMinimum(policy) ==
  policy # Null /\ "minimumSharing" \in DOMAIN policy

\* the value returned when the workspace enforces transparency
enforcedPrivacy_partial ==
  [portfolioValue |-> "exact", performance |-> "visible", positions |-> "tickers_only",
   activity |-> "without_amounts", watchlist |-> "visible", source |-> "enforced"]

enforcedPrivacy ==
  [portfolioValue |-> "exact", performance |-> "visible", positions |-> "full",
   activity |-> "full", watchlist |-> "visible", source |-> "enforced"]

\* source: workspaceOverride ? 'workspace_override' : 'user_default'
resolvedSource_minimum(workspaceOverride) ==
  IF workspaceOverride # Null THEN "workspace_minimum" ELSE "user_default"

resolvedSource(workspaceOverride) ==
  IF workspaceOverride # Null THEN "workspace_override" ELSE "user_default"

resolvePrivacy(policy, rows, defaults, userId) ==
  IF enforced(policy)
    THEN enforcedPrivacy
  ELSE IF ~isMember(rows, userId)
    THEN [error |-> "User is not a member of this workspace"]
  ELSE
    LET workspaceOverride == findMember(rows, userId).privacyOverride
        userDefaults == IF defaults[userId] # Null THEN defaults[userId] ELSE DEFAULT_PRIVACY
        minimums == IF hasMinimum(policy) THEN policy.minimumSharing ELSE DEFAULT_PRIVACY
        field(f) == resolveField(f, Get(workspaceOverride, f), Get(userDefaults, f),
                                 Get(minimums, f))
    IN [portfolioValue |-> field("portfolioValue"),
        performance    |-> field("performance"),
        positions      |-> field("positions"),
        activity       |-> field("activity"),
        watchlist      |-> field("watchlist"),
        source |-> resolvedSource(workspaceOverride)]

\* ---------------------------------------------- lib/privacy-utils.ts
\* json.field || defaults.field
\* a JSON value that is not an object: a string, a number, a boolean
Scalar == [scalar |-> "string"]

\* !json || typeof json !== "object", then json[f] || defaults[f] per field;
\* "" stands for the falsy field values
parsePrivacySettings(json) ==
  IF json = Null \/ json = Scalar THEN DEFAULT_PRIVACY
  ELSE [f \in Fields |-> IF Get(json, f) \notin {Undefined, ""} THEN json[f]
                         ELSE DEFAULT_PRIVACY[f]]

parseWorkspacePrivacyPolicy(json) ==
  IF json = Null
    THEN [enforcedTransparency |-> FALSE, allowAnonymousMode |-> FALSE]
  ELSE
    LET base == [enforcedTransparency |-> IF "enforcedTransparency" \in DOMAIN json
                                            THEN json.enforcedTransparency ELSE FALSE,
                 allowAnonymousMode |-> IF "allowAnonymousMode" \in DOMAIN json
                                            THEN json.allowAnonymousMode ELSE FALSE]
    IN IF "minimumSharing" \in DOMAIN json
         THEN Spread(base, [minimumSharing |-> parsePrivacySettings(json.minimumSharing)])
         ELSE base

\* raise settings[f] to minimum[f] when it ranks below it (privacy-utils.ts 46-78)
floorField(settings, minimum, f) ==
  IF Get(minimum, f) # Undefined
       /\ indexOf(hierarchies[f], settings[f]) < indexOf(hierarchies[f], minimum[f])
    THEN minimum[f] ELSE settings[f]

resolvePrivacySettings(userDefaults, workspacePolicy, workspaceOverride) ==
  LET settings == IF workspaceOverride # Null THEN Spread(userDefaults, workspaceOverride)
                  ELSE userDefaults
  IN IF enforced(workspacePolicy) /\ hasMinimum(workspacePolicy)
       THEN LET minimum == workspacePolicy.minimumSharing
            IN [f \in DOMAIN settings |->
                  IF f \in {"portfolioValue", "positions", "activity"}
                    THEN floorField(settings, minimum, f)
                  ELSE IF f = "performance"
                    THEN IF Get(minimum, f) = "visible" /\ settings[f] = "hidden"
                           THEN "visible" ELSE settings[f]
                  ELSE settings[f]]
       ELSE settings

getPerformancePrivacyLevel_valueOnly(settings) ==
  IF settings.performance = "hidden" THEN "hidden"
  ELSE IF settings.portfolioValue = "exact" /\ settings.performance = "visible" THEN "full"
  ELSE "partial"

getPerformancePrivacyLevel(settings) ==
  IF settings.performance = "hidden" THEN "hidden"
  ELSE IF settings.portfolioValue = "hidden" THEN "hidden"
  ELSE IF settings.portfolioValue = "exact" /\ settings.performance = "visible" THEN "full"
  ELSE "partial"

canRankInLeaderboard(settings) ==
  settings.performance = "visible" /\ settings.portfolioValue = "exact"

\* the per-member resolution of the squad-history handler (route.ts 131-143)
memberEffectiveSettings(policy, row, defaults) ==
  LET userDefaults == parsePrivacySettings(defaults[row.userId])
      workspaceOverride == IF row.privacyOverride # Null
                             THEN parsePrivacySettings(row.privacyOverride) ELSE Null
  IN resolvePrivacySettings(userDefaults, parseWorkspacePrivacyPolicy(policy), workspaceOverride)

\* --------------------------------------------------------------- numbers
Abs(x) == IF x < 0 THEN -x ELSE x

RECURSIVE Gcd(_, _)
Gcd(a, b) == IF b = 0 THEN a ELSE Gcd(b, a % b)

\* a JSON number, kept exact as a reduced fraction
Rat(n, d) ==
  LET g == Gcd(Abs(n), Abs(d))
      sgn == IF d < 0 THEN -1 ELSE 1
  IN [n |-> sgn * (n \div g), d |-> sgn * (d \div g)]

Num(x) == [n |-> x, d |-> 1]

RatAdd(a, b) == Rat(a.n * b.d + b.n * a.d, a.d * b.d)

RatDivInt(a, k) == Rat(a.n, a.d * k)

RatLess(a, b) == a.n * b.d < b.n * a.d

RECURSIVE SortedSeq(_)
\* Array.from(set).sort() of equally formatted ISO date strings
SortedSeq(S) ==
  IF S = {} THEN <<>>
  ELSE LET m == CHOOSE x \in S : \A y \in S : x <= y
       IN <<m>> \o SortedSeq(S \ {m})

RECURSIVE SumTotalValue(_)
SumTotalValue(rowSet) ==
  IF rowSet = {} THEN 0
  ELSE LET r == CHOOSE x \in rowSet : TRUE
       IN r.totalValue + SumTotalValue(rowSet \ {r})

\* ------------------------------------------------------------------ time
\* instants are counted in half days; an instant's calendar day is its date key
TicksPerDay == 2

\* the calendar day of new Date()
Today == 400

\* new Date(): the second instant of the current day
Now == Today * TicksPerDay + 1

\* snap.date.toISOString().split("T")[0]
dateKey(instant) == instant \div TicksPerDay

\* new Date(dateKey).toISOString(): the first instant of that day
dayStart(key) == key * TicksPerDay

TimePeriods == {"1D", "1W", "1M", "3M", "6M", "1Y", "YTD"}

\* squad history route.ts 103-128, for the clock above (15 March)
periodStart(period) ==
  CASE period = "1D"  -> Now - 1 * TicksPerDay
    [] period = "1W"  -> Now - 7 * TicksPerDay
    [] period = "1M"  -> Now - 28 * TicksPerDay
    [] period = "3M"  -> Now - 90 * TicksPerDay
    [] period = "6M"  -> Now - 181 * TicksPerDay
    [] period = "1Y"  -> Now - 365 * TicksPerDay
    [] period = "YTD" -> dayStart(dateKey(Now) - 73)

\* ------------------- app/api/workspaces/[workspaceId]/portfolio/history
\* one member's series: snapshots since startDate, summed per day, sorted,
\* with the change from the first day (route.ts 145-190)
memberHistory(userId, startDate, snaps) ==
  LET mine == {r \in snaps : r.userId = userId /\ r.snapshotDate >= startDate}
      keys == {dateKey(r.snapshotDate) : r \in mine}
      valueAt(k) == SumTotalValue({r \in mine : dateKey(r.snapshotDate) = k})
      sorted == SortedSeq(keys)
      baseValue == IF Len(sorted) > 0 THEN valueAt(sorted[1]) ELSE 0
  IN [i \in 1..Len(sorted) |->
        [date |-> dayStart(sorted[i]),
         value |-> valueAt(sorted[i]),
         percentChange |-> IF baseValue > 0
                             THEN Rat((valueAt(sorted[i]) - baseValue) * 100, baseValue)
                             ELSE Num(0)]]

historyDates(members) ==
  UNION {{members[i].history[j].date : j \in 1..Len(members[i].history)} : i \in 1..Len(members)}

\* member.history.find((h) => h.date === date)
pointsAt(members, date) ==
  {i \in 1..Len(members) : \E j \in 1..Len(members[i].history) : members[i].history[j].date = date}

pointOf(history, date) ==
  history[CHOOSE j \in 1..Len(history) :
            history[j].date = date /\ \A k \in 1..(j - 1) : history[k].date # date]

RECURSIVE SumPercent(_, _, _)
SumPercent(members, idx, date) ==
  IF idx = {} THEN Num(0)
  ELSE LET i == CHOOSE x \in idx : TRUE
       IN RatAdd(pointOf(members[i].history, date).percentChange,
                 SumPercent(members, idx \ {i}, date))

RECURSIVE SumValue(_, _, _)
SumValue(members, idx, date) ==
  IF idx = {} THEN 0
  ELSE LET i == CHOOSE x \in idx : TRUE
       IN pointOf(members[i].history, date).value + SumValue(members, idx \ {i}, date)

\* the sum divided by the number of members instead of the number of points
calculateSquadAverage_perMember(members) ==
  IF Len(members) = 0 THEN <<>>
  ELSE LET sortedDates == SortedSeq(historyDates(members))
       IN [k \in 1..Len(sortedDates) |->
             [date |-> sortedDates[k],
              percentChange |->
                RatDivInt(SumPercent(members, pointsAt(members, sortedDates[k]), sortedDates[k]),
                          Len(members))]]

calculateSquadAverage(members) ==
  IF Len(members) = 0 THEN <<>>
  ELSE LET sortedDates == SortedSeq(historyDates(members))
       IN [k \in 1..Len(sortedDates) |->
             LET idx == pointsAt(members, sortedDates[k])
                 count == Cardinality(idx)
             IN [date |-> sortedDates[k],
                 percentChange |-> IF count > 0
                                     THEN RatDivInt(SumPercent(members, idx, sortedDates[k]), count)
                                     ELSE Num(0)]]

\* only the dates on which every member has a point
calculateSquadTotal_complete(members) ==
  IF Len(members) = 0 THEN <<>>
  ELSE LET sortedDates ==
             SortedSeq({d \in historyDates(members) :
                          pointsAt(members, d) = 1..Len(members)})
       IN [k \in 1..Len(sortedDates) |->
             [date |-> sortedDates[k],
              value |-> SumValue(members, pointsAt(members, sortedDates[k]), sortedDates[k])]]

calculateSquadTotal(members) ==
  IF Len(members) = 0 THEN <<>>
  ELSE LET sortedDates == SortedSeq(historyDates(members))
       IN [k \in 1..Len(sortedDates) |->
             [date |-> sortedDates[k],
              value |-> SumValue(members, pointsAt(members, sortedDates[k]), sortedDates[k])]]

\* members.filter((m) => m.privacyLevel !== "hidden")
visibleOnly_all(membersData) == membersData

visibleOnly(membersData) == SelectSeq(membersData, LAMBDA m : m.privacyLevel # "hidden")

\* the per-member listing of the response (route.ts 225-236)
memberListing(m) ==
  [memberId |-> m.memberId, privacyLevel |-> m.privacyLevel,
   history |-> IF m.privacyLevel = "hidden" THEN <<>>
               ELSE [j \in 1..Len(m.history) |->
                       [date |-> m.history[j].date,
                        percentChange |-> m.history[j].percentChange]]]

\* the series of the first member instead of the requester's
currentUserHistory_first(membersData) ==
  IF Len(membersData) > 0 THEN membersData[1].history ELSE <<>>

\* membersData.find((m) => m.isCurrentUser)?.history || []
currentUserHistory(membersData) ==
  LET current == SelectSeq(membersData, LAMBDA m : m.isCurrentUser)
  IN IF Len(current) > 0 THEN current[1].history ELSE <<>>

NoSession == "anonymous"

\* searchParams.get("period") || "1M": an absent parameter reads as Undefined
periodOrDefault(periodParam) ==
  IF periodParam = Undefined \/ periodParam = "" THEN "1M" ELSE periodParam

\* GET /api/workspaces/[workspaceId]/portfolio/history
squadHistoryGET(sessionUser, periodParam, policy, rows, defaults, snaps) ==
  IF sessionUser = NoSession
    THEN [status |-> 401, error |-> "Unauthorized", resolvedFor |-> {}]
  ELSE IF periodOrDefault(periodParam) \notin TimePeriods
    THEN [status |-> 400, error |-> "Invalid period parameter", resolvedFor |-> {}]
  ELSE IF ~isMember(rows, sessionUser)
    THEN [status |-> 403, error |-> "Not a member of this workspace", resolvedFor |-> {}]
  ELSE
    LET startDate == periodStart(periodOrDefault(periodParam))
        membersData ==
          [i \in 1..Len(rows) |->
             [memberId |-> rows[i].userId,
              privacyLevel |-> getPerformancePrivacyLevel(
                                 memberEffectiveSettings(policy, rows[i], defaults)),
              history |-> memberHistory(rows[i].userId, startDate, snaps),
              isCurrentUser |-> rows[i].userId = sessionUser]]
        visibleMembers == visibleOnly(membersData)
    IN [status |-> 200,
        squadAverage |-> calculateSquadAverage(visibleMembers),
        squadTotal |-> calculateSquadTotal(visibleMembers),
        members |-> [i \in 1..Len(membersData) |-> memberListing(membersData[i])],
        yourHistory |-> currentUserHistory(membersData),
        metadata |-> [totalMembers |-> Len(rows),
                      visibleMembers |-> Len(visibleMembers),
                      hiddenMembers |-> Len(rows) - Len(visibleMembers)],
        resolvedFor |-> {rows[i].userId : i \in 1..Len(rows)}]

\* -------------------------- formatters of lib/privacy-resolver.ts 176-261
displayK(x) == IF x >= 1000 THEN [unit |-> "K", amount |-> x \div 1000]
               ELSE [unit |-> "", amount |-> x]

\* the bucket nearest to the value instead of the one below it
formatPortfolioValue_nearest(value, privacy) ==
  CASE privacy = "exact" ->
         [display |-> [style |-> "currency", amount |-> value],
          exact |-> Num(value), range |-> Null]
    [] privacy = "approximate" ->
         LET lower == ((value + 5000) \div 10000) * 10000
             upper == lower + 10000
         IN [display |-> [style |-> "range", lower |-> displayK(lower), upper |-> displayK(upper)],
             exact |-> Null, range |-> [lower |-> lower, upper |-> upper]]
    [] privacy = "hidden" ->
         [display |-> [style |-> "Hidden"], exact |-> Null, range |-> Null]

formatPortfolioValue(value, privacy) ==
  CASE privacy = "exact" ->
         [display |-> [style |-> "currency", amount |-> value],
          exact |-> Num(value), range |-> Null]
    [] privacy = "approximate" ->
         LET lower == (value \div 10000) * 10000
             upper == lower + 10000
         IN [display |-> [style |-> "range", lower |-> displayK(lower), upper |-> displayK(upper)],
             exact |-> Null, range |-> [lower |-> lower, upper |-> upper]]
    [] privacy = "hidden" ->
         [display |-> [style |-> "Hidden"], exact |-> Null, range |-> Null]

formatPerformance(change, changePercent, privacy) ==
  IF privacy = "visible"
    THEN [changePercent |-> changePercent, changeAmount |-> Num(change)]
    ELSE [changePercent |-> Null, changeAmount |-> Null]

\* tickers_only keeps the quantity next to the ticker
filterPositions_quantity(positions, privacy) ==
  CASE privacy = "full" -> positions
    [] privacy = "tickers_only" ->
         [i \in 1..Len(positions) |->
            [symbol |-> positions[i].symbol, securityName |-> positions[i].securityName,
             securityType |-> positions[i].securityType, quantity |-> positions[i].quantity]]
    [] privacy = "hidden" -> <<>>

filterPositions(positions, privacy) ==
  CASE privacy = "full" -> positions
    [] privacy = "tickers_only" ->
         [i \in 1..Len(positions) |->
            [symbol |-> positions[i].symbol, securityName |-> positions[i].securityName,
             securityType |-> positions[i].securityType]]
    [] privacy = "hidden" -> <<>>

canViewUserData(viewerId, targetUserId, rows) ==
  IF viewerId = targetUserId THEN TRUE
  ELSE isMember(rows, viewerId) /\ isMember(rows, targetUserId)

\* ------------------------------------------ app/api/portfolio/history
\* amounts of this handler are counted in cents
SAMPLING_CONFIG ==
  [p \in TimePeriods |->
     CASE p = "1D"  -> [intervalDays |-> 1, maxPoints |-> 1]
       [] p = "1W"  -> [intervalDays |-> 1, maxPoints |-> 7]
       [] p = "1M"  -> [intervalDays |-> 7, maxPoints |-> 5]
       [] p = "3M"  -> [intervalDays |-> 7, maxPoints |-> 13]
       [] p = "6M"  -> [intervalDays |-> 7, maxPoints |-> 26]
       [] p = "1Y"  -> [intervalDays |-> 30, maxPoints |-> 12]
       [] p = "YTD" -> [intervalDays |-> 30, maxPoints |-> 12]]

\* setDate, setMonth and setFullYear keep the time of day; for a clock of 15 March
getPeriodStartDate(period, now) ==
  CASE period = "1D"  -> now - 1 * TicksPerDay
    [] period = "1W"  -> now - 7 * TicksPerDay
    [] period = "1M"  -> now - 28 * TicksPerDay
    [] period = "3M"  -> now - 90 * TicksPerDay
    [] period = "6M"  -> now - 181 * TicksPerDay
    [] period = "1Y"  -> now - 365 * TicksPerDay
    [] period = "YTD" -> dayStart(dateKey(now) - 73)

Max(a, b) == IF a > b THEN a ELSE b

Min(a, b) == IF a < b THEN a ELSE b

\* date.setHours(0, 0, 0, 0)
startOfDay(instant) == dayStart(dateKey(instant))

\* the evenly spaced dates alone, the end of the period not appended
generateSampleDates_spaced(periodStartDate, periodEnd, config) ==
  LET totalDays == (periodEnd - periodStartDate + TicksPerDay - 1) \div TicksPerDay
      actualInterval == Max(1, totalDays \div config.maxPoints)
      step == actualInterval * TicksPerDay
      first == startOfDay(periodStartDate)
      pushed == IF first > periodEnd THEN 0
                ELSE Min(config.maxPoints, (periodEnd - first) \div step + 1)
  IN [k \in 1..pushed |-> first + (k - 1) * step]

generateSampleDates(periodStartDate, periodEnd, config) ==
  LET totalDays == (periodEnd - periodStartDate + TicksPerDay - 1) \div TicksPerDay
      actualInterval == Max(1, totalDays \div config.maxPoints)
      step == actualInterval * TicksPerDay
      first == startOfDay(periodStartDate)
      pushed == IF first > periodEnd THEN 0
                ELSE Min(config.maxPoints, (periodEnd - first) \div step + 1)
      dates == [k \in 1..pushed |-> first + (k - 1) * step]
      endDateNormalized == startOfDay(periodEnd)
  IN IF dates[Len(dates)] # endDateNormalized THEN Append(dates, endDateNormalized)
     ELSE dates

\* groupedData is a function from date keys to the day's sums
findClosestValue(targetDate, groupedData, sortedDates) ==
  LET targetKey == dateKey(targetDate)
      before == {k \in DOMAIN groupedData : k <= targetKey}
      after == {k \in DOMAIN groupedData : k > targetKey}
  IN IF targetKey \in DOMAIN groupedData
       THEN [value |-> groupedData[targetKey].totalValue,
             pl |-> groupedData[targetKey].totalPL, isInterpolated |-> FALSE]
     ELSE IF before # {}
       THEN LET nearestBefore == CHOOSE k \in before : \A j \in before : j <= k
            IN [value |-> groupedData[nearestBefore].totalValue,
                pl |-> groupedData[nearestBefore].totalPL, isInterpolated |-> TRUE]
     ELSE IF after # {}
       THEN LET nearestAfter == CHOOSE k \in after : \A j \in after : k <= j
            IN [value |-> groupedData[nearestAfter].totalValue,
                pl |-> groupedData[nearestAfter].totalPL, isInterpolated |-> TRUE]
     ELSE [value |-> 0, pl |-> 0, isInterpolated |-> TRUE]

\* a / b of two doubles given in cents: d = 0 stands for NaN (n = 0) and the
\* infinities (n = 1, n = -1)
Quotient(a, b) ==
  IF b = 0 THEN [n |-> IF a > 0 THEN 1 ELSE IF a < 0 THEN -1 ELSE 0, d |-> 0]
  ELSE Rat(a, b)

isFinite(x) == x.d # 0

\* (pl / initialInvestment) * 100 without the guard on the denominator
plPercentOf_unguarded(value, pl) ==
  LET initialInvestment == value - pl
  IN IF initialInvestment = 0 THEN Quotient(pl, 0) ELSE Rat(pl * 100, initialInvestment)

\* route.ts 235-241; Math.abs(initialInvestment) > 0.01 is more than one cent
plPercentOf(value, pl) ==
  LET initialInvestment == value - pl
      calculated == LET q == Quotient(pl, initialInvestment)
                    IN IF isFinite(q) THEN Rat(q.n * 100, q.d) ELSE q
  IN IF Abs(initialInvestment) > 1
       THEN IF isFinite(calculated) THEN calculated ELSE Num(0)
     ELSE Num(0)

RECURSIVE SumTotalPL(_)
SumTotalPL(rowSet) ==
  IF rowSet = {} THEN 0
  ELSE LET r == CHOOSE x \in rowSet : TRUE
       IN r.totalPL + SumTotalPL(rowSet \ {r})

\* prisma.portfolioSnapshot.findMany({ where: { snapshotDate: { gte: effectiveStart } } })
fetchSnapshots(userId, effectiveStart, snaps) ==
  {r \in snaps : r.userId = userId /\ r.snapshotDate >= effectiveStart}

\* the earlier of the first connection and the first snapshot, else new Date()
joinDateOf(userId, connections, snaps, now) ==
  LET created == {c.createdAt : c \in {x \in connections : x.userId = userId}}
      taken == {r.snapshotDate : r \in {x \in snaps : x.userId = userId}}
      both == created \cup taken
  IN IF both = {} THEN now ELSE CHOOSE t \in both : \A o \in both : t <= o

formatDateLabel(date, period) ==
  CASE period = "1D" -> [format |-> "Today"]
    [] period = "1W" -> [format |-> "weekday", day |-> dateKey(date) % 7]
    [] period = "1Y" -> [format |-> "month", day |-> dateKey(date)]
    [] OTHER -> [format |-> "month day", day |-> dateKey(date)]

\* Math.floor in place of Math.round
RoundDiv_floor(a, b) == a \div b

\* Math.round of a non-negative quotient
RoundDiv(a, b) == (2 * a + b) \div (2 * b)

\* the default taken for every period outside the enum as well
PortfolioHistoryQuerySchema_lenient(periodParam) ==
  IF periodParam \in TimePeriods THEN [success |-> TRUE, period |-> periodParam]
  ELSE [success |-> TRUE, period |-> "1M"]

\* period: TimePeriodSchema.optional().default("1M")
PortfolioHistoryQuerySchema(periodParam) ==
  IF periodParam = Undefined THEN [success |-> TRUE, period |-> "1M"]
  ELSE IF periodParam \in TimePeriods THEN [success |-> TRUE, period |-> periodParam]
  ELSE [success |-> FALSE, period |-> periodParam]

\* GET /api/portfolio/history
portfolioHistoryGET(sessionUser, periodParam, registered, connections, snaps) ==
  IF sessionUser = NoSession
    THEN [status |-> 401, error |-> "Unauthorized"]
  ELSE IF ~PortfolioHistoryQuerySchema(periodParam).success
    THEN [status |-> 400, error |-> "Validation failed"]
  ELSE IF sessionUser \notin registered
    THEN [status |-> 200, history |-> <<>>,
          period |-> PortfolioHistoryQuerySchema(periodParam).period,
          dataQuality |-> [actualPoints |-> 0, totalPoints |-> 0, coverage |-> 0]]
  ELSE
    LET period == PortfolioHistoryQuerySchema(periodParam).period
        config == SAMPLING_CONFIG[period]
        now == Now
        periodStartDate == getPeriodStartDate(period, now)
        joinDateStart == startOfDay(joinDateOf(sessionUser, connections, snaps, now))
        effectiveStart == IF periodStartDate < joinDateStart THEN joinDateStart
                          ELSE periodStartDate
        snapshots == fetchSnapshots(sessionUser, effectiveStart, snaps)
        keys == {dateKey(r.snapshotDate) : r \in snapshots}
        groupedData ==
          [k \in keys |->
             LET day == {r \in snapshots : dateKey(r.snapshotDate) = k}
             IN [totalValue |-> SumTotalValue(day), totalPL |-> SumTotalPL(day)]]
        sortedDates == SortedSeq(keys)
        sampleDates == generateSampleDates(effectiveStart, now, config)
        history ==
          [i \in 1..Len(sampleDates) |->
             LET c == findClosestValue(sampleDates[i], groupedData, sortedDates)
             IN [date |-> dateKey(sampleDates[i]),
                 value |-> c.value,
                 pl |-> c.pl,
                 plPercent |-> plPercentOf(c.value, c.pl),
                 isInterpolated |-> c.isInterpolated,
                 label |-> formatDateLabel(sampleDates[i], period)]]
        actualPointCount == Cardinality({i \in 1..Len(history) : ~history[i].isInterpolated})
        totalPoints == Len(history)
    IN [status |-> 200, history |-> history, period |-> period,
        dataQuality |-> [actualPoints |-> actualPointCount,
                         totalPoints |-> totalPoints,
                         coverage |-> IF totalPoints > 0
                                        THEN RoundDiv(actualPointCount * 100, totalPoints)
                                        ELSE 0]]

\* ------------------------------------- GET /api/workspace/:id/leaderboard
RECURSIVE SumInts(_)
\* seq.reduce((sum, x) => sum + x, 0)
SumInts(seq) == IF Len(seq) = 0 THEN 0 ELSE seq[1] + SumInts(Tail(seq))

RECURSIVE FlatPositions(_)
\* accounts.flatMap(account => account.positions)
FlatPositions(accounts) ==
  IF Len(accounts) = 0 THEN <<>>
  ELSE accounts[1].positions \o FlatPositions(Tail(accounts))

\* one member's entry before ranking (comment/route.ts 307-374)
leaderboardEntry(row, privacy, accounts) ==
  LET totalValue == SumInts([i \in 1..Len(accounts) |-> accounts[i].totalValue])
      positionsValue(a) == SumInts([j \in 1..Len(a.positions) |-> a.positions[j].unrealizedPL])
      todayChange == SumInts([i \in 1..Len(accounts) |-> positionsValue(accounts[i])])
      todayChangePercent == IF totalValue > 0 THEN Rat(todayChange * 100, totalValue)
                            ELSE Num(0)
      allPositions == FlatPositions(accounts)
  IN [userId |-> row.userId,
      role |-> row.role,
      portfolioValue |-> formatPortfolioValue(totalValue, privacy.portfolioValue),
      performance |-> formatPerformance(todayChange, todayChangePercent, privacy.performance),
      positions |-> [count |-> Len(allPositions),
                     data |-> filterPositions(allPositions, privacy.positions),
                     privacyLevel |-> privacy.positions],
      privacySettings |-> [portfolioValue |-> privacy.portfolioValue,
                           performance |-> privacy.performance,
                           positions |-> privacy.positions]]

\* exact value, else midpoint of the range, else 0 (comment/route.ts 381-386)
sortValue(member) ==
  IF member.portfolioValue.exact # Null THEN member.portfolioValue.exact
  ELSE IF member.portfolioValue.range # Null
    THEN Rat(member.portfolioValue.range.lower + member.portfolioValue.range.upper, 2)
  ELSE Num(0)

RECURSIVE InsertDesc(_, _)
\* stable insertion of e into a sequence ordered by descending sortValue
InsertDesc(sorted, e) ==
  IF Len(sorted) = 0 THEN <<e>>
  ELSE IF RatLess(sortValue(sorted[1]), sortValue(e)) THEN <<e>> \o sorted
  ELSE <<sorted[1]>> \o InsertDesc(Tail(sorted), e)

RECURSIVE SortDesc(_, _)
\* .sort((a, b) => b.sortValue - a.sortValue), a stable sort
SortDesc(seq, acc) ==
  IF Len(seq) = 0 THEN acc ELSE SortDesc(Tail(seq), InsertDesc(acc, seq[1]))

\* rank: index + 1 over the sorted list (comment/route.ts 389-393)
rankedEntry(member, index) == Spread(member, [rank |-> index])

RECURSIVE SumRats(_)
SumRats(seq) == IF Len(seq) = 0 THEN Num(0) ELSE RatAdd(seq[1], SumRats(Tail(seq)))

leaderboardGET(sessionUser, policy, rows, defaults, accountsOf) ==
  IF sessionUser = NoSession
    THEN [status |-> 401, error |-> "Unauthorized", resolvedFor |-> {}]
  ELSE IF ~canViewUserData(sessionUser, sessionUser, rows)
    THEN [status |-> 403, error |-> "Not a member of this workspace", resolvedFor |-> {}]
  ELSE
    LET privacyOf(i) == resolvePrivacy(policy, rows, defaults, rows[i].userId)
        resolvedFor == {rows[i].userId : i \in 1..Len(rows)}
    IN IF \E i \in 1..Len(rows) : "error" \in DOMAIN privacyOf(i)
         THEN [status |-> 500, error |-> "Failed to fetch leaderboard",
               resolvedFor |-> resolvedFor]
       ELSE
         LET leaderboardData ==
               [i \in 1..Len(rows) |->
                  leaderboardEntry(rows[i], privacyOf(i), accountsOf[rows[i].userId])]
             sorted == SortDesc(leaderboardData, <<>>)
             sortedLeaderboard == [i \in 1..Len(sorted) |-> rankedEntry(sorted[i], i)]
             totalCombinedValue ==
               SumRats([i \in 1..Len(sortedLeaderboard) |->
                          IF "sortValue" \in DOMAIN sortedLeaderboard[i]
                            THEN sortedLeaderboard[i].sortValue ELSE Num(0)])
             avgReturn ==
               IF Len(sortedLeaderboard) = 0 THEN Null
               ELSE RatDivInt(SumRats([i \in 1..Len(sortedLeaderboard) |->
                        IF sortedLeaderboard[i].performance.changePercent # Null
                          THEN sortedLeaderboard[i].performance.changePercent ELSE Num(0)]),
                      Len(sortedLeaderboard))
         IN [status |-> 200,
             leaderboard |-> sortedLeaderboard,
             stats |-> [totalMembers |-> Len(rows),
                        combinedValue |-> totalCombinedValue,
                        avgReturn |-> avgReturn],
             resolvedFor |-> resolvedFor]

\* ------------------------------------------------------- record writes
MemberRow(u, ov) == [userId |-> u, role |-> "MEMBER", privacyOverride |-> ov]

\* the creator's row written with the workspace
OwnerRow(u) == [userId |-> u, role |-> "OWNER", privacyOverride |-> Null]

\* a partial settings object holding one field
OneField(f, v) == [k \in {f} |-> v]

Without(obj, key) == [k \in (DOMAIN obj) \ {key} |-> obj[k]]

\* PUT /api/user/privacy with a body that passes isValidPrivacySettings
PutUserPrivacy(u, body) ==
  /\ edits < MaxEdits
  /\ body \in PrivacySettings
  /\ privacyDefaults[u] # body
  /\ privacyDefaults' = [privacyDefaults EXCEPT ![u] = body]
  /\ edits' = edits + 1
  /\ resolved' = None /\ effective' = None /\ response' = None
  /\ UNCHANGED <<privacyPolicy, workspaceMembers, brokerageAccounts, portfolioSnapshots,
                 snaptradeUsers, brokerageConnections, inFlight,
                 workspaceActivities>>

\* WorkspaceMember.privacyOverride written as a whole: null or one field set
SetPrivacyOverride(u, f, v) ==
  /\ edits < MaxEdits
  /\ isMember(workspaceMembers, u)
  /\ \E i \in 1..Len(workspaceMembers) :
       /\ workspaceMembers[i].userId = u
       /\ LET old == workspaceMembers[i].privacyOverride
              new == IF old = Null THEN OneField(f, v) ELSE Spread(old, OneField(f, v))
          IN /\ new # old
             /\ workspaceMembers' = [workspaceMembers EXCEPT ![i].privacyOverride = new]
  /\ edits' = edits + 1
  /\ resolved' = None /\ effective' = None /\ response' = None
  /\ UNCHANGED <<privacyDefaults, privacyPolicy, brokerageAccounts, portfolioSnapshots,
                 snaptradeUsers, brokerageConnections, inFlight,
                 workspaceActivities>>

\* Workspace.privacyPolicy.minimumSharing: one field set, or the floor removed
SetMinimumSharing(f, v) ==
  /\ edits < MaxEdits
  /\ privacyPolicy # Null
  /\ LET old == IF hasMinimum(privacyPolicy) THEN privacyPolicy.minimumSharing ELSE <<>>
         new == Spread(privacyPolicy, [minimumSharing |-> Spread(old, OneField(f, v))])
     IN /\ new # privacyPolicy
        /\ privacyPolicy' = new
  /\ edits' = edits + 1
  /\ resolved' = None /\ effective' = None /\ response' = None
  /\ UNCHANGED <<privacyDefaults, workspaceMembers, brokerageAccounts, portfolioSnapshots,
                 snaptradeUsers, brokerageConnections, inFlight,
                 workspaceActivities>>

ClearMinimumSharing ==
  /\ edits < MaxEdits
  /\ hasMinimum(privacyPolicy)
  /\ privacyPolicy' = Without(privacyPolicy, "minimumSharing")
  /\ edits' = edits + 1
  /\ resolved' = None /\ effective' = None /\ response' = None
  /\ UNCHANGED <<privacyDefaults, workspaceMembers, brokerageAccounts, portfolioSnapshots,
                 snaptradeUsers, brokerageConnections, inFlight,
                 workspaceActivities>>

\* Workspace.privacyPolicy stored as JSON null
ClearPrivacyPolicy ==
  /\ edits < MaxEdits
  /\ privacyPolicy # Null
  /\ privacyPolicy' = Null
  /\ edits' = edits + 1
  /\ resolved' = None /\ effective' = None /\ response' = None
  /\ UNCHANGED <<privacyDefaults, workspaceMembers, brokerageAccounts, portfolioSnapshots,
                 snaptradeUsers, brokerageConnections, inFlight,
                 workspaceActivities>>

SetEnforcedTransparency(b) ==
  /\ edits < MaxEdits
  /\ privacyPolicy # Null
  /\ Get(privacyPolicy, "enforcedTransparency") # b
  /\ privacyPolicy' = Spread(privacyPolicy, [enforcedTransparency |-> b])
  /\ edits' = edits + 1
  /\ resolved' = None /\ effective' = None /\ response' = None
  /\ UNCHANGED <<privacyDefaults, workspaceMembers, brokerageAccounts, portfolioSnapshots,
                 snaptradeUsers, brokerageConnections, inFlight, workspaceActivities>>

\* ----------------------------------------------------- resolver calls
ResolvePrivacyCall(u) ==
  /\ resolved = None
  /\ resolved' = [kind |-> "resolved", userId |-> u,
                  result |-> resolvePrivacy(privacyPolicy, workspaceMembers, privacyDefaults, u)]
  /\ UNCHANGED <<privacyDefaults, privacyPolicy, workspaceMembers, brokerageAccounts,
                 portfolioSnapshots, edits, effective, response,
                 snaptradeUsers, brokerageConnections, inFlight,
                 workspaceActivities>>

EffectiveSettingsCall(u) ==
  /\ effective = None
  /\ isMember(workspaceMembers, u)
  /\ LET settings == memberEffectiveSettings(privacyPolicy,
                         findMember(workspaceMembers, u), privacyDefaults)
     IN effective' = [kind |-> "effective", userId |-> u, result |-> settings,
                      privacyLevel |-> getPerformancePrivacyLevel(settings),
                      canRank |-> canRankInLeaderboard(settings)]
  /\ UNCHANGED <<privacyDefaults, privacyPolicy, workspaceMembers, brokerageAccounts,
                 portfolioSnapshots, edits, resolved, response,
                 snaptradeUsers, brokerageConnections, inFlight, workspaceActivities>>

\* ------------------------------------------------ resolver specification
Init ==
  /\ privacyDefaults = [u \in Users |-> DEFAULT_PRIVACY]
  /\ privacyPolicy = DefaultPolicy
  /\ workspaceMembers = <<OwnerRow("u1")>>
  /\ brokerageAccounts = [u \in Users |-> <<>>]
  /\ portfolioSnapshots = {}
  /\ edits = 0
  /\ resolved = None
  /\ effective = None
  /\ response = None
  /\ snaptradeUsers = {}
  /\ brokerageConnections = {}
  /\ inFlight = <<>>
  /\ workspaceActivities = <<>>

Next ==
  \/ \E body \in PrivacySettings : PutUserPrivacy("u1", body)
  \/ \E f \in Fields : \E v \in ScaleOf(f) : SetPrivacyOverride("u1", f, v)
  \/ \E f \in Fields : \E v \in ScaleOf(f) : SetMinimumSharing(f, v)
  \/ ClearMinimumSharing
  \/ ClearPrivacyPolicy
  \/ \E b \in BOOLEAN : SetEnforcedTransparency(b)
  \/ \E u \in {"u1", "u2"} : ResolvePrivacyCall(u)
  \/ EffectiveSettingsCall("u1")

Spec == Init /\ [][Next]_vars

\* --------------------------------------------- request handler actions
\* POST /api/workspace/:id/join
JoinPOST(u) ==
  /\ response = None
  /\ IF isMember(workspaceMembers, u)
       THEN /\ response' = [handler |-> "join", sessionUser |-> u,
                            body |-> [status |-> 409,
                                      error |-> "Already a member of this workspace"]]
            /\ UNCHANGED workspaceMembers
       ELSE /\ workspaceMembers' = Append(workspaceMembers, MemberRow(u, Null))
            /\ response' = [handler |-> "join", sessionUser |-> u,
                            body |-> [status |-> 201, membership |-> [role |-> "MEMBER"]]]
  /\ UNCHANGED <<privacyDefaults, privacyPolicy, brokerageAccounts, portfolioSnapshots,
                 edits, resolved, effective,
                 snaptradeUsers, brokerageConnections, inFlight,
                 workspaceActivities>>

\* a PortfolioSnapshot row written by a sync on the day of its snapshotDate
InsertSnapshot(u, instant, value) ==
  /\ Cardinality(portfolioSnapshots) < MaxSnapshots
  /\ LET row == [userId |-> u, snapshotDate |-> instant, totalValue |-> value]
     IN /\ row \notin portfolioSnapshots
        /\ portfolioSnapshots' = portfolioSnapshots \cup {row}
  /\ response = None
  /\ UNCHANGED <<privacyDefaults, privacyPolicy, workspaceMembers, brokerageAccounts,
                 edits, resolved, effective, response,
                 snaptradeUsers, brokerageConnections, inFlight,
                 workspaceActivities>>

SquadHistoryGET(sessionUser, periodParam) ==
  /\ response = None
  /\ response' = [handler |-> "squadHistory", sessionUser |-> sessionUser,
                  periodParam |-> periodParam,
                  period |-> periodOrDefault(periodParam),
                  body |-> squadHistoryGET(sessionUser, periodParam, privacyPolicy,
                                           workspaceMembers, privacyDefaults,
                                           portfolioSnapshots)]
  /\ UNCHANGED <<privacyDefaults, privacyPolicy, workspaceMembers, brokerageAccounts,
                 portfolioSnapshots, edits, resolved, effective,
                 snaptradeUsers, brokerageConnections, inFlight,
                 workspaceActivities>>

LeaderboardGET(sessionUser) ==
  /\ response = None
  /\ response' = [handler |-> "leaderboard", sessionUser |-> sessionUser,
                  body |-> leaderboardGET(sessionUser, privacyPolicy, workspaceMembers,
                                          privacyDefaults, brokerageAccounts)]
  /\ UNCHANGED <<privacyDefaults, privacyPolicy, workspaceMembers, brokerageAccounts,
                 portfolioSnapshots, edits, resolved, effective,
                 snaptradeUsers, brokerageConnections, inFlight,
                 workspaceActivities>>

\* the response is returned to the client; a handler keeps nothing of it
SendResponse ==
  /\ response # None
  /\ response' = None
  /\ UNCHANGED <<privacyDefaults, privacyPolicy, workspaceMembers, brokerageAccounts,
                 portfolioSnapshots, edits, resolved, effective,
                 snaptradeUsers, brokerageConnections, inFlight, workspaceActivities>>

\* ------------------------------------------------ handler specification
\* stored settings the handlers are exercised on
HiddenSettings ==
  [portfolioValue |-> "hidden", performance |-> "hidden", positions |-> "hidden",
   activity |-> "hidden", watchlist |-> "hidden"]

OpenSettings ==
  [portfolioValue |-> "exact", performance |-> "visible", positions |-> "full",
   activity |-> "full", watchlist |-> "visible"]

StoredSettings == {HiddenSettings, DEFAULT_PRIVACY, OpenSettings}

\* a policy whose minimumSharing is the empty object
NoFloorPolicy ==
  [minimumSharing |-> <<>>, enforcedTransparency |-> FALSE, allowAnonymousMode |-> FALSE]

EnforcedPolicy == Spread(DefaultPolicy, [enforcedTransparency |-> TRUE])

StoredPolicies == {DefaultPolicy, NoFloorPolicy, EnforcedPolicy}

Position(symbol, quantity, pl) ==
  [symbol |-> symbol, securityName |-> symbol, securityType |-> "stock",
   quantity |-> quantity, unrealizedPL |-> pl]

StoredAccounts ==
  [u \in Users |->
     CASE u = "u1" -> <<[totalValue |-> 25000, positions |-> <<Position("AAPL", 10, 500)>>]>>
       [] u = "u2" -> <<[totalValue |-> 25000, positions |-> <<>>]>>
       [] u = "u3" -> <<[totalValue |-> 3000, positions |-> <<Position("TSLA", 2, -100)>>],
                        [totalValue |-> 2000, positions |-> <<Position("AAPL", 1, 50)>>]>>]

\* every user linked a brokerage the day before
StoredConnections == {[userId |-> u, createdAt |-> dayStart(Today - 1)] : u \in Users}

SnapshotInstants == {dayStart(Today - 1), Now}

SnapshotValues == {100, 200}

RequestPeriods == {"1D", "1M", "2W"}

InitHandlers ==
  /\ privacyDefaults \in [Users -> StoredSettings]
  /\ privacyPolicy \in StoredPolicies
  /\ workspaceMembers = <<OwnerRow("u1")>>
  /\ brokerageAccounts = StoredAccounts
  /\ portfolioSnapshots = {}
  /\ edits = 0
  /\ resolved = None
  /\ effective = None
  /\ response = None
  /\ snaptradeUsers = Users
  /\ brokerageConnections = StoredConnections
  /\ inFlight = <<>>
  /\ workspaceActivities = <<>>

NextHandlers ==
  \/ \E u \in Users : JoinPOST(u)
  \/ \E u \in Users : \E t \in SnapshotInstants : \E v \in SnapshotValues :
       InsertSnapshot(u, t, v)
  \/ \E su \in Users \cup {NoSession} : \E p \in RequestPeriods : SquadHistoryGET(su, p)
  \/ \E su \in Users \cup {NoSession} : LeaderboardGET(su)
  \/ SendResponse

SpecHandlers == InitHandlers /\ [][NextHandlers]_vars

\* ---------------------------------------------- formatter specification
\* the formatters of lib/privacy-resolver.ts applied to drawn arguments
FormatPortfolioValueCall(value, privacy) ==
  /\ response' = [handler |-> "formatPortfolioValue", value |-> value, privacy |-> privacy,
                  body |-> formatPortfolioValue(value, privacy)]
  /\ UNCHANGED <<privacyDefaults, privacyPolicy, workspaceMembers, brokerageAccounts,
                 portfolioSnapshots, edits, resolved, effective,
                 snaptradeUsers, brokerageConnections, inFlight,
                 workspaceActivities>>

FilterPositionsCall(positions, privacy) ==
  /\ response' = [handler |-> "filterPositions", positions |-> positions, privacy |-> privacy,
                  body |-> filterPositions(positions, privacy)]
  /\ UNCHANGED <<privacyDefaults, privacyPolicy, workspaceMembers, brokerageAccounts,
                 portfolioSnapshots, edits, resolved, effective,
                 snaptradeUsers, brokerageConnections, inFlight,
                 workspaceActivities>>

\* portfolio totals on, next to and between the bucket boundaries, below zero too
PortfolioValues ==
  {b * 10000 + d : b \in (0 - MaxBuckets)..MaxBuckets, d \in {0, 1, 4999, 5000, 9999}}

\* a Position row as the brokerage sync stores it
HeldPosition(symbol, securityType, quantity) ==
  [symbol |-> symbol, securityName |-> symbol, securityType |-> securityType,
   quantity |-> quantity, averageCost |-> 90, currentPrice |-> 100,
   marketValue |-> quantity * 100, unrealizedPL |-> quantity * 10,
   unrealizedPLPercent |-> Rat(100, 9)]

HeldPositions ==
  {HeldPosition("AAPL", "stock", 10), HeldPosition("AAPL", "stock", 3),
   HeldPosition("SPY", "etf", 1)}

PositionLists == UNION {[1..n -> HeldPositions] : n \in 0..MaxPositions}

NextFormatters ==
  \/ \E v \in PortfolioValues : \E p \in ScaleOf("portfolioValue") :
       FormatPortfolioValueCall(v, p)
  \/ \E ps \in PositionLists : \E p \in ScaleOf("positions") : FilterPositionsCall(ps, p)

SpecFormatters == Init /\ [][NextFormatters]_vars

\* -------------------------------------------- user settings specification
\* isValidPrivacySettings: the allowed values of each key (route.ts 384-390)
validValues ==
  [portfolioValue |-> {"exact", "approximate", "hidden"},
   performance |-> {"visible", "hidden"},
   positions |-> {"full", "tickers_only", "hidden"},
   activity |-> {"full", "without_amounts", "hidden"},
   watchlist |-> {"visible", "hidden"}]

\* any object passes
isValidPrivacySettings_anyObject(settings) == settings \notin {Null, Scalar}

isValidPrivacySettings(settings) ==
  /\ settings \notin {Null, Scalar}
  /\ \A key \in DOMAIN validValues :
       key \in DOMAIN settings /\ settings[key] \in validValues[key]

\* GET /api/user/privacy
UserPrivacyGET(sessionUser) ==
  /\ response' =
       [handler |-> "userPrivacyGET", sessionUser |-> sessionUser,
        body |-> IF sessionUser = NoSession THEN [status |-> 401, error |-> "Unauthorized"]
                 ELSE [status |-> 200,
                       privacyDefaults |-> IF privacyDefaults[sessionUser] = Null
                                             THEN DEFAULT_PRIVACY
                                             ELSE privacyDefaults[sessionUser]]]
  /\ UNCHANGED <<privacyDefaults, privacyPolicy, workspaceMembers, brokerageAccounts,
                 portfolioSnapshots, edits, resolved, effective,
                 snaptradeUsers, brokerageConnections, inFlight,
                 workspaceActivities>>

\* PUT /api/user/privacy with body { privacyDefaults: submitted }
UserPrivacyPUT(sessionUser, submitted) ==
  /\ IF sessionUser = NoSession
       THEN /\ response' = [handler |-> "userPrivacyPUT", sessionUser |-> sessionUser,
                            submitted |-> submitted,
                            body |-> [status |-> 401, error |-> "Unauthorized"]]
            /\ UNCHANGED privacyDefaults
     ELSE IF ~isValidPrivacySettings(submitted)
       THEN /\ response' = [handler |-> "userPrivacyPUT", sessionUser |-> sessionUser,
                            submitted |-> submitted,
                            body |-> [status |-> 400,
                                      error |-> "Invalid privacy settings format"]]
            /\ UNCHANGED privacyDefaults
     ELSE /\ privacyDefaults' = [privacyDefaults EXCEPT ![sessionUser] = submitted]
          /\ response' = [handler |-> "userPrivacyPUT", sessionUser |-> sessionUser,
                          submitted |-> submitted,
                          body |-> [status |-> 200, privacyDefaults |-> submitted]]
  /\ UNCHANGED <<privacyPolicy, workspaceMembers, brokerageAccounts,
                 portfolioSnapshots, edits, resolved, effective,
                 snaptradeUsers, brokerageConnections, inFlight,
                 workspaceActivities>>

\* submitted settings: complete ones, one with a further key, one without
\* watchlist, one with a value outside its scale, null and a string
SubmittedSettings ==
  {OpenSettings, HiddenSettings, DEFAULT_PRIVACY,
   Spread(OpenSettings, [theme |-> "dark"]),
   Without(OpenSettings, "watchlist"),
   Spread(OpenSettings, [positions |-> "public"]),
   Null, Scalar}

\* a stored JSON column read back by parsePrivacySettings
ParsePrivacySettingsCall(json) ==
  /\ response = None
  /\ response' = [handler |-> "parsePrivacySettings", json |-> json,
                  body |-> parsePrivacySettings(json)]
  /\ UNCHANGED <<privacyDefaults, privacyPolicy, workspaceMembers, brokerageAccounts,
                 portfolioSnapshots, edits, resolved, effective,
                 snaptradeUsers, brokerageConnections, inFlight,
                 workspaceActivities>>

\* per field: absent, a falsy value, a string outside the scale, a value of the scale
JsonFieldValues(f) == {Undefined, "", "public"} \cup ScaleOf(f)

JsonObjects ==
  {[f \in {g \in Fields : c[g] # Undefined} |-> c[f]] :
     c \in {x \in [Fields -> UNION {JsonFieldValues(f) : f \in Fields}] :
              \A f \in Fields : x[f] \in JsonFieldValues(f)}}

JsonInputs == {Null, Scalar} \cup JsonObjects

NextSettings ==
  \/ \E su \in {"u1", "u2", NoSession} : UserPrivacyGET(su)
  \/ \E su \in {"u1", "u2", NoSession} : \E b \in SubmittedSettings : UserPrivacyPUT(su, b)
  \/ \E json \in JsonInputs : ParsePrivacySettingsCall(json)
  \/ SendResponse

SpecSettings == Init /\ [][NextSettings]_vars

\* -------------------------------------------- squad history specification
\* a squad of three members with stored snapshots, asked for its history
SnapshotRows ==
  {[userId |-> u, snapshotDate |-> t, totalValue |-> v] :
     u \in Users, t \in SnapshotInstants, v \in SnapshotValues}

SquadPeriods == {"1D", "1M"}

InitSquad ==
  /\ privacyDefaults \in [Users -> StoredSettings]
  /\ privacyPolicy = NoFloorPolicy
  /\ workspaceMembers = <<OwnerRow("u1"), MemberRow("u2", Null), MemberRow("u3", Null)>>
  /\ brokerageAccounts = StoredAccounts
  /\ portfolioSnapshots \in {S \in SUBSET SnapshotRows : Cardinality(S) <= MaxStoredSnapshots}
  /\ edits = 0
  /\ resolved = None
  /\ effective = None
  /\ response = None
  /\ snaptradeUsers = Users
  /\ brokerageConnections = StoredConnections
  /\ inFlight = <<>>
  /\ workspaceActivities = <<>>

NextSquad ==
  \/ \E su \in Users : \E p \in SquadPeriods : SquadHistoryGET(su, p)
  \/ SendResponse

SpecSquad == InitSquad /\ [][NextSquad]_vars

\* ------------------------------------------ personal history specification
PortfolioHistoryGET(sessionUser, periodParam) ==
  /\ response = None
  /\ response' = [handler |-> "portfolioHistory", sessionUser |-> sessionUser,
                  periodParam |-> periodParam,
                  period |-> PortfolioHistoryQuerySchema(periodParam).period,
                  body |-> portfolioHistoryGET(sessionUser, periodParam, snaptradeUsers,
                                               brokerageConnections, portfolioSnapshots)]
  /\ UNCHANGED <<privacyDefaults, privacyPolicy, workspaceMembers, brokerageAccounts,
                 portfolioSnapshots, edits, resolved, effective,
                 snaptradeUsers, brokerageConnections, inFlight,
                 workspaceActivities>>

\* u1 linked a brokerage five days ago, long ago, or has no connection row
\* left; u2 never registered with the brokerage service
LinkInstants == {dayStart(Today - 5) + 1, dayStart(Today - 100)}

\* days of the stored snapshots: today, yesterday (before and after the time
\* of day of the request), five days ago and forty days ago
SamplerInstants ==
  {Now, dayStart(Today - 1), dayStart(Today - 1) + 1, dayStart(Today - 5) + 1,
   dayStart(Today - 40)}

\* totalValue and totalPL in cents: all cash, invested one cent, a gain, a loss
SamplerAmounts ==
  {[totalValue |-> 5000, totalPL |-> 5000], [totalValue |-> 5001, totalPL |-> 5000],
   [totalValue |-> 10000, totalPL |-> 2500], [totalValue |-> 7500, totalPL |-> -2500]}

SamplerRows ==
  {[userId |-> "u1", snapshotDate |-> t, totalValue |-> a.totalValue, totalPL |-> a.totalPL] :
     t \in SamplerInstants, a \in SamplerAmounts}

InitSampler ==
  /\ privacyDefaults = [u \in Users |-> DEFAULT_PRIVACY]
  /\ privacyPolicy = DefaultPolicy
  /\ workspaceMembers = <<OwnerRow("u1")>>
  /\ brokerageAccounts = [u \in Users |-> <<>>]
  /\ portfolioSnapshots \in {S \in SUBSET SamplerRows : Cardinality(S) <= MaxSnapshots}
  /\ edits = 0
  /\ resolved = None
  /\ effective = None
  /\ response = None
  /\ snaptradeUsers = {"u1"}
  /\ brokerageConnections \in
       {{}} \cup {{[userId |-> "u1", createdAt |-> t]} : t \in LinkInstants}
  /\ inFlight = <<>>
  /\ workspaceActivities = <<>>

\* the period of a request: absent, empty, an allowed one, another one
QueryPeriods == {Undefined, "", "1D", "1M", "2W"}

NextSampler ==
  \/ \E su \in {"u1", "u2", NoSession} : \E p \in TimePeriods \cup {"2W", Undefined} :
       PortfolioHistoryGET(su, p)
  \/ \E su \in {"u1", "u2", NoSession} : \E p \in QueryPeriods : SquadHistoryGET(su, p)
  \/ SendResponse

SpecSampler == InitSampler /\ [][NextSampler]_vars


\* ------------------------------------------ brokerage sync specification
\* createSnapshots runs of lib/sync-service.ts for one user, one step per await
MaxSyncRuns == 2

\* what starts a run: the cron batch's quickSync and a manual sync of the user
SyncTriggers == {"cron", "manual"}

RECURSIVE totalInvestmentsOf(_)
\* positions.reduce((sum, pos) => sum + (pos.averageCost || 0) * pos.quantity, 0)
totalInvestmentsOf(positions) ==
  IF Len(positions) = 0 THEN 0
  ELSE positions[1].averageCost * positions[1].quantity + totalInvestmentsOf(Tail(positions))

\* findFirst({ accountId, snapshotDate: { gte: today, lt: tomorrow } })
existingSnapshot(snapshots, accountId, today) ==
  \E s \in snapshots : s.accountId = accountId /\ dateKey(s.snapshotDate) = today

\* the row of prisma.portfolioSnapshot.create, its id generated by the database
snapshotRow(snapshots, u, account, instant) ==
  [id |-> Cardinality(snapshots) + 1, accountId |-> account.id, userId |-> u,
   snapshotDate |-> instant, totalValue |-> account.totalValue,
   totalPL |-> account.totalValue - totalInvestmentsOf(account.positions)]

Idle(runs) == [pc |-> "idle", runs |-> runs, accounts |-> <<>>, i |-> 0, today |-> 0]

\* the accounts are fetched and today's bounds are computed
StartCreateSnapshots(r, u) ==
  /\ inFlight[r].pc = "idle"
  /\ inFlight[r].runs < MaxSyncRuns
  /\ inFlight' = [inFlight EXCEPT ![r] =
                    [pc |-> "findFirst", runs |-> @.runs + 1,
                     accounts |-> brokerageAccounts[u], i |-> 1, today |-> dateKey(Now)]]
  /\ UNCHANGED <<privacyDefaults, privacyPolicy, workspaceMembers, brokerageAccounts,
                 portfolioSnapshots, edits, resolved, effective, response,
                 snaptradeUsers, brokerageConnections, workspaceActivities>>

\* the loop's check of one account: skip it, or go on to create its snapshot
FindFirstSnapshot(r) ==
  /\ inFlight[r].pc = "findFirst"
  /\ inFlight[r].i <= Len(inFlight[r].accounts)
  /\ inFlight' = [inFlight EXCEPT ![r] =
                    IF existingSnapshot(portfolioSnapshots, @.accounts[@.i].id, @.today)
                      THEN [@ EXCEPT !.i = @ + 1]
                      ELSE [@ EXCEPT !.pc = "create"]]
  /\ UNCHANGED <<privacyDefaults, privacyPolicy, workspaceMembers, brokerageAccounts,
                 portfolioSnapshots, edits, resolved, effective, response,
                 snaptradeUsers, brokerageConnections, workspaceActivities>>

CreateSnapshot(r, u) ==
  /\ inFlight[r].pc = "create"
  /\ portfolioSnapshots' = portfolioSnapshots \cup
       {snapshotRow(portfolioSnapshots, u, inFlight[r].accounts[inFlight[r].i], Now)}
  /\ inFlight' = [inFlight EXCEPT ![r] = [@ EXCEPT !.pc = "findFirst", !.i = @ + 1]]
  /\ UNCHANGED <<privacyDefaults, privacyPolicy, workspaceMembers, brokerageAccounts,
                 edits, resolved, effective, response,
                 snaptradeUsers, brokerageConnections, workspaceActivities>>

\* the loop is over
ReturnCreateSnapshots(r) ==
  /\ inFlight[r].pc = "findFirst"
  /\ inFlight[r].i > Len(inFlight[r].accounts)
  /\ inFlight' = [inFlight EXCEPT ![r] = Idle(@.runs)]
  /\ UNCHANGED <<privacyDefaults, privacyPolicy, workspaceMembers, brokerageAccounts,
                 portfolioSnapshots, edits, resolved, effective, response,
                 snaptradeUsers, brokerageConnections, workspaceActivities>>

\* the user has two brokerage accounts, synced before the runs
InitSync ==
  /\ privacyDefaults = [u \in Users |-> DEFAULT_PRIVACY]
  /\ privacyPolicy = DefaultPolicy
  /\ workspaceMembers = <<OwnerRow("u1")>>
  /\ brokerageAccounts =
      [u \in Users |->
         IF u = "u1"
           THEN <<[id |-> "a1", totalValue |-> 3000,
                   positions |-> <<HeldPosition("TSLA", "stock", 2)>>],
                  [id |-> "a2", totalValue |-> 2000, positions |-> <<>>]>>
           ELSE <<>>]
  /\ portfolioSnapshots = {}
  /\ edits = 0
  /\ resolved = None
  /\ effective = None
  /\ response = None
  /\ snaptradeUsers = {"u1"}
  /\ brokerageConnections = {[userId |-> "u1", createdAt |-> dayStart(Today - 1)]}
  /\ inFlight = [r \in SyncTriggers |-> Idle(0)]
  /\ workspaceActivities = <<>>

NextSync ==
  \/ \E r \in SyncTriggers : StartCreateSnapshots(r, "u1")
  \/ \E r \in SyncTriggers : FindFirstSnapshot(r)
  \/ \E r \in SyncTriggers : CreateSnapshot(r, "u1")
  \/ \E r \in SyncTriggers : ReturnCreateSnapshots(r)

SpecSync == InitSync /\ [][NextSync]_vars


\* -------------------------------------------- activity feed specification
MaxActivities == 2

\* settings.activity !== "hidden" and settings.activity === "full"
canShowActivity(settings) == settings.activity # "hidden"

canShowActivityAmounts(settings) == settings.activity = "full"

\* x || null for an optional number of a transaction
OrNull(obj, key) == IF key \in DOMAIN obj /\ obj[key] # Num(0) THEN obj[key] ELSE Null

\* the activity type of a transaction, null for other than a trade
activityTypeOf(transaction) ==
  CASE transaction.type = "buy" -> "TRADE_BUY"
    [] transaction.type = "sell" -> "TRADE_SELL"
    [] OTHER -> "null"

\* privacySettings.activity of (user?.privacyDefaults || {}), mapped to a level
activityPrivacyLevel(json) ==
  LET activity == IF json = Null THEN Undefined ELSE Get(json, "activity")
  IN IF activity = "full" THEN "full"
     ELSE IF activity = "without_amounts" THEN "partial"
     ELSE "hidden"

RECURSIVE createActivities(_, _, _, _)
\* one prisma.workspaceActivity.create per workspace id, in order
createActivities(stored, transaction, workspaceIds, privacyLevel) ==
  IF Len(workspaceIds) = 0 THEN stored
  ELSE createActivities(
         Append(stored,
                [id |-> Len(stored) + 1, workspaceId |-> workspaceIds[1],
                 userId |-> transaction.userId, type |-> activityTypeOf(transaction),
                 symbol |-> transaction.symbol,
                 quantity |-> OrNull(transaction, "quantity"),
                 price |-> OrNull(transaction, "price"),
                 value |-> transaction.amount,
                 message |-> Null,
                 metadata |-> [privacyLevel |-> privacyLevel],
                 visibility |-> "workspace",
                 createdAt |-> Len(stored) + 1]),
         transaction, Tail(workspaceIds), privacyLevel)

generateActivityFromTransaction(stored, transaction, workspaceIds, defaults) ==
  IF Len(workspaceIds) = 0 THEN stored
  ELSE IF activityTypeOf(transaction) = "null" THEN stored
  ELSE IF activityPrivacyLevel(defaults[transaction.userId]) = "hidden" THEN stored
  ELSE createActivities(stored, transaction, workspaceIds,
                        activityPrivacyLevel(defaults[transaction.userId]))

\* limit of ActivityQuerySchema: 50 when absent, else parseInt, within 1..100
ActivityQuerySchema(limitParam) ==
  IF limitParam = Undefined THEN [success |-> TRUE, limit |-> 50]
  ELSE IF limitParam = "1" THEN [success |-> TRUE, limit |-> 1]
  ELSE [success |-> FALSE, limit |-> 0]

RECURSIVE newestFirst(_)
\* orderBy: { createdAt: "desc" }
newestFirst(rows) ==
  IF Len(rows) = 0 THEN <<>> ELSE <<rows[Len(rows)]>> \o newestFirst(SubSeq(rows, 1, Len(rows) - 1))

\* the fields of a feed entry taken from the stored row
formattedActivity(activity) ==
  [id |-> activity.id, workspaceId |-> activity.workspaceId, userId |-> activity.userId,
   type |-> activity.type, symbol |-> activity.symbol,
   quantity |-> activity.quantity, price |-> activity.price, value |-> activity.value,
   message |-> activity.message, metadata |-> activity.metadata,
   visibility |-> activity.visibility, createdAt |-> activity.createdAt]

activityFeedGET(sessionUser, workspaceId, limitParam, rows, stored) ==
  IF sessionUser = NoSession THEN [status |-> 401, error |-> "Unauthorized"]
  ELSE IF ~ActivityQuerySchema(limitParam).success
    THEN [status |-> 400, error |-> "Invalid query parameters"]
  ELSE IF ~isMember(rows, sessionUser)
    THEN [status |-> 403, error |-> "Not a member of this workspace"]
  ELSE
    LET limit == ActivityQuerySchema(limitParam).limit
        matching == newestFirst(SelectSeq(stored,
                      LAMBDA a : a.workspaceId = workspaceId /\ a.visibility = "workspace"))
        activities == SubSeq(matching, 1, Min(Len(matching), limit + 1))
        hasMore == Len(activities) > limit
        returnedActivities == IF hasMore THEN SubSeq(activities, 1, limit) ELSE activities
    IN [status |-> 200,
        activities |-> [i \in 1..Len(returnedActivities) |->
                          formattedActivity(returnedActivities[i])],
        total |-> Len(matching),
        hasMore |-> hasMore]

GenerateActivityFromTransaction(transaction, workspaceIds) ==
  /\ response = None
  /\ Len(workspaceActivities) + Len(workspaceIds) <= MaxActivities
  /\ workspaceActivities' = generateActivityFromTransaction(
                              workspaceActivities, transaction, workspaceIds, privacyDefaults)
  /\ UNCHANGED <<privacyDefaults, privacyPolicy, workspaceMembers, brokerageAccounts,
                 portfolioSnapshots, edits, resolved, effective, response,
                 snaptradeUsers, brokerageConnections, inFlight>>

ActivityFeedGET(sessionUser, limitParam) ==
  /\ response = None
  /\ response' = [handler |-> "activityFeed", sessionUser |-> sessionUser,
                  body |-> activityFeedGET(sessionUser, "w1", limitParam,
                                           workspaceMembers, workspaceActivities)]
  /\ UNCHANGED <<privacyDefaults, privacyPolicy, workspaceMembers, brokerageAccounts,
                 portfolioSnapshots, edits, resolved, effective,
                 snaptradeUsers, brokerageConnections, inFlight, workspaceActivities>>

\* trades and a dividend of two users, quantity and price given, zero or absent
Transactions ==
  {Spread([userId |-> u, symbol |-> "AAPL", type |-> t, amount |-> Num(500)], opt) :
     u \in {"u1", "u2"}, t \in {"buy", "sell", "dividend"},
     opt \in {<<>>, [quantity |-> Num(5), price |-> Num(100)],
              [quantity |-> Num(0), price |-> Num(100)]}}

InitActivity ==
  /\ privacyDefaults \in {[u \in Users |-> IF u = "u1" THEN s ELSE DEFAULT_PRIVACY] :
                            s \in StoredSettings}
  /\ privacyPolicy = DefaultPolicy
  /\ workspaceMembers = <<OwnerRow("u1"), MemberRow("u2", Null)>>
  /\ brokerageAccounts = StoredAccounts
  /\ portfolioSnapshots = {}
  /\ edits = 0
  /\ resolved = None
  /\ effective = None
  /\ response = None
  /\ snaptradeUsers = Users
  /\ brokerageConnections = StoredConnections
  /\ inFlight = <<>>
  /\ workspaceActivities = <<>>

NextActivity ==
  \/ \E transaction \in Transactions : \E workspaceIds \in {<<>>, <<"w1">>, <<"w1", "w2">>} :
       GenerateActivityFromTransaction(transaction, workspaceIds)
  \/ \E su \in Users \cup {NoSession} : \E limitParam \in {Undefined, "1", "0"} :
       ActivityFeedGET(su, limitParam)
  \/ SendResponse

SpecActivity == InitActivity /\ [][NextActivity]_vars


\* ---------------------------------------------- workspace join specification
\* POST /api/workspace/:id/join handled for several requests at once, one step
\* per await of the handler
MaxJoins == 2

JoinRequests == {"r1", "r2"}

Waiting(runs) == [pc |-> "idle", runs |-> runs, user |-> NoSession, status |-> 0,
                  role |-> "null"]

Answered(request, status, role) ==
  [request EXCEPT !.pc = "done", !.status = status, !.role = role]

\* workspaceMember.create under the unique key workspaceId_userId: the row is
\* added unless the pair is stored already, in which case the create throws
createMember(rows, u) ==
  IF isMember(rows, u) THEN [created |-> FALSE, rows |-> rows]
  ELSE [created |-> TRUE, rows |-> Append(rows, MemberRow(u, Null))]

\* the session is read and the workspace is found
JoinGetSession(r, su) ==
  /\ inFlight[r].pc = "idle"
  /\ inFlight[r].runs < MaxJoins
  /\ inFlight' = [inFlight EXCEPT ![r] =
                    IF su = NoSession
                      THEN Answered([@ EXCEPT !.runs = @ + 1, !.user = su], 401, "null")
                      ELSE [@ EXCEPT !.pc = "findMembership", !.runs = @ + 1, !.user = su]]
  /\ UNCHANGED <<privacyDefaults, privacyPolicy, workspaceMembers, brokerageAccounts,
                 portfolioSnapshots, edits, resolved, effective, response,
                 snaptradeUsers, brokerageConnections, workspaceActivities>>

\* existingMembership is read: 409 when there is one
JoinFindMembership(r) ==
  /\ inFlight[r].pc = "findMembership"
  /\ inFlight' = [inFlight EXCEPT ![r] =
                    IF isMember(workspaceMembers, @.user)
                      THEN Answered(@, 409, "null")
                      ELSE [@ EXCEPT !.pc = "create"]]
  /\ UNCHANGED <<privacyDefaults, privacyPolicy, workspaceMembers, brokerageAccounts,
                 portfolioSnapshots, edits, resolved, effective, response,
                 snaptradeUsers, brokerageConnections, workspaceActivities>>

\* the membership is created: 201, or 500 from the catch when the create throws
JoinCreateMembership(r) ==
  /\ inFlight[r].pc = "create"
  /\ LET outcome == createMember(workspaceMembers, inFlight[r].user)
     IN /\ workspaceMembers' = outcome.rows
        /\ inFlight' = [inFlight EXCEPT ![r] =
                          IF outcome.created THEN Answered(@, 201, "MEMBER")
                          ELSE Answered(@, 500, "null")]
  /\ UNCHANGED <<privacyDefaults, privacyPolicy, brokerageAccounts,
                 portfolioSnapshots, edits, resolved, effective, response,
                 snaptradeUsers, brokerageConnections, workspaceActivities>>

\* the response is returned to the client
JoinRespond(r) ==
  /\ inFlight[r].pc = "done"
  /\ inFlight' = [inFlight EXCEPT ![r] = Waiting(@.runs)]
  /\ UNCHANGED <<privacyDefaults, privacyPolicy, workspaceMembers, brokerageAccounts,
                 portfolioSnapshots, edits, resolved, effective, response,
                 snaptradeUsers, brokerageConnections, workspaceActivities>>

InitJoin ==
  /\ privacyDefaults = [u \in Users |-> DEFAULT_PRIVACY]
  /\ privacyPolicy = DefaultPolicy
  /\ workspaceMembers = <<OwnerRow("u1")>>
  /\ brokerageAccounts = [u \in Users |-> <<>>]
  /\ portfolioSnapshots = {}
  /\ edits = 0
  /\ resolved = None
  /\ effective = None
  /\ response = None
  /\ snaptradeUsers = {}
  /\ brokerageConnections = {}
  /\ inFlight = [r \in JoinRequests |-> Waiting(0)]
  /\ workspaceActivities = <<>>

NextJoin ==
  \/ \E r \in JoinRequests : \E su \in Users \cup {NoSession} : JoinGetSession(r, su)
  \/ \E r \in JoinRequests : JoinFindMembership(r)
  \/ \E r \in JoinRequests : JoinCreateMembership(r)
  \/ \E r \in JoinRequests : JoinRespond(r)

SpecJoin == InitJoin /\ [][NextJoin]_vars

\* ================================================== properties: resolver
\* position of a value on its field's scale, 1 = least disclosure
RankOf(f, v) ==
  CASE f = "portfolioValue" -> (CASE v = "hidden" -> 1 [] v = "approximate" -> 2 [] v = "exact" -> 3)
    [] f = "performance"    -> (CASE v = "hidden" -> 1 [] v = "visible" -> 2)
    [] f = "positions"      -> (CASE v = "hidden" -> 1 [] v = "tickers_only" -> 2 [] v = "full" -> 3)
    [] f = "activity"       -> (CASE v = "hidden" -> 1 [] v = "without_amounts" -> 2 [] v = "full" -> 3)
    [] f = "watchlist"      -> (CASE v = "hidden" -> 1 [] v = "visible" -> 2)

HigherRank(f, a, b) == IF RankOf(f, a) >= RankOf(f, b) THEN a ELSE b

\* the stored inputs of the last resolvePrivacy call
StoredOverride == findMember(workspaceMembers, resolved.userId).privacyOverride

StoredDefault == privacyDefaults[resolved.userId]

TransparencyEnforced ==
  /\ privacyPolicy # Null
  /\ Get(privacyPolicy, "enforcedTransparency") = TRUE

MinimumSpecified(f) ==
  /\ privacyPolicy # Null
  /\ "minimumSharing" \in DOMAIN privacyPolicy
  /\ f \in DOMAIN privacyPolicy.minimumSharing

\* minimumSharing[field] ?? lowestRank
MinimumOrLowest(f) ==
  IF MinimumSpecified(f) THEN privacyPolicy.minimumSharing[f] ELSE "hidden"

Candidate(f) ==
  IF StoredOverride # Null /\ f \in DOMAIN StoredOverride THEN StoredOverride[f]
  ELSE StoredDefault[f]

\* resolvePrivacy returned settings (the user is a member or transparency is enforced)
Resolved == resolved # None /\ "error" \notin DOMAIN resolved.result

ResolvedNotEnforced == Resolved /\ ~TransparencyEnforced

\* C1: without enforced transparency every field of the resolved value is
\* higherRank(override value if present else user default, minimumSharing[field]
\* or the lowest rank when no minimum is given for the field).
C1_FieldwiseHigherRank ==
  ResolvedNotEnforced =>
    \A f \in Fields : resolved.result[f] = HigherRank(f, Candidate(f), MinimumOrLowest(f))

\* C2: monotonic floor - without enforced transparency the resolved value of a
\* field never ranks below the minimum specified for that field.
C2_MonotonicFloor ==
  ResolvedNotEnforced =>
    \A f \in Fields :
      MinimumSpecified(f) =>
        RankOf(f, resolved.result[f]) >= RankOf(f, privacyPolicy.minimumSharing[f])

\* the floor acted: an override below the specified minimum was resolved
C2_Witness ==
  /\ ResolvedNotEnforced
  /\ StoredOverride # Null
  /\ \E f \in Fields :
       /\ MinimumSpecified(f)
       /\ f \in DOMAIN StoredOverride
       /\ RankOf(f, StoredOverride[f]) < RankOf(f, privacyPolicy.minimumSharing[f])
       /\ resolved.result[f] = privacyPolicy.minimumSharing[f]

\* C3: with enforcedTransparency = true the resolved value is maximum
\* disclosure on every field with source enforced, whatever the other inputs.
C3_EnforcedDominance ==
  (resolved # None /\ TransparencyEnforced) =>
    resolved.result = [portfolioValue |-> "exact", performance |-> "visible",
                       positions |-> "full", activity |-> "full",
                       watchlist |-> "visible", source |-> "enforced"]

\* enforced transparency resolved over a hidden user default and a hidden override
C3_Witness ==
  /\ resolved # None /\ TransparencyEnforced
  /\ resolved.userId = "u1"
  /\ StoredDefault.portfolioValue = "hidden"
  /\ StoredOverride # Null
  /\ \E f \in DOMAIN StoredOverride : StoredOverride[f] = "hidden"

\* C8: with no minimumSharing, no enforced transparency and no override the
\* resolved value is exactly the user default on every field.
C8_AbsentMinimumNoFloor ==
  (/\ ResolvedNotEnforced
   /\ ~(privacyPolicy # Null /\ "minimumSharing" \in DOMAIN privacyPolicy)
   /\ StoredOverride = Null)
    => \A f \in Fields : resolved.result[f] = StoredDefault[f]

\* C9: the source tag is enforced iff transparency is enforced, otherwise
\* workspace_override iff the member has an override and user_default iff not;
\* a user default equal to the minimum with no override resolves to itself.
C9_SourceTag ==
  Resolved =>
    /\ resolved.result.source \in {"enforced", "workspace_override", "user_default"}
    /\ (resolved.result.source = "enforced") <=> TransparencyEnforced
    /\ ~TransparencyEnforced =>
         /\ (resolved.result.source = "workspace_override") <=> (StoredOverride # Null)
         /\ (resolved.result.source = "user_default") <=> (StoredOverride = Null)
    /\ (/\ ~TransparencyEnforced
        /\ StoredOverride = Null
        /\ \A f \in Fields : MinimumSpecified(f) /\ privacyPolicy.minimumSharing[f] = StoredDefault[f])
         => /\ \A f \in Fields : resolved.result[f] = StoredDefault[f]
            /\ resolved.result.source = "user_default"

\* an override was resolved without enforced transparency
C9_Witness ==
  /\ ResolvedNotEnforced
  /\ StoredOverride # Null
  /\ resolved.result.source = "workspace_override"

\* performanceDisclosureTier of section 4.2
TierOf(s) ==
  IF s.performance = "hidden" \/ s.portfolioValue = "hidden" THEN "hidden"
  ELSE IF s.portfolioValue = "exact" /\ s.performance = "visible" THEN "full"
  ELSE "partial"

\* C10: the tier is hidden iff performance or portfolioValue is hidden, full
\* iff exact and visible, partial otherwise; canRankInLeaderboard iff tier full.
C10_PerformanceTier ==
  effective # None =>
    /\ effective.privacyLevel = TierOf(effective.result)
    /\ effective.canRank <=> (effective.privacyLevel = "full")

\* the tier was computed for settings hidden only through portfolioValue
C10_Witness ==
  /\ effective # None
  /\ effective.result.performance = "visible"
  /\ effective.result.portfolioValue = "hidden"
  /\ effective.privacyLevel = "hidden"

\* C4: the settings the squad-history handler computes for a member equal,
\* field by field, those resolvePrivacy returns for the same stored inputs.
C4_AggregationPathCanonical ==
  (Resolved /\ effective # None /\ effective.userId = resolved.userId) =>
    \A f \in Fields : effective.result[f] = resolved.result[f]

\* ================================================== properties: handlers
SquadHistoryAnswered ==
  response # None /\ response.handler = "squadHistory" /\ response.body.status = 200

LeaderboardAnswered ==
  response # None /\ response.handler = "leaderboard" /\ response.body.status = 200

StoredMember(u) == \E i \in 1..Len(workspaceMembers) : workspaceMembers[i].userId = u

\* C5: a leaderboard entry carries a rank only if the member's resolved
\* privacy has performance = visible and portfolioValue = exact.
C5_LeaderboardExclusion ==
  LeaderboardAnswered =>
    \A i \in 1..Len(response.body.leaderboard) :
      LET entry == response.body.leaderboard[i]
      IN "rank" \in DOMAIN entry =>
           /\ entry.privacySettings.performance = "visible"
           /\ entry.privacySettings.portfolioValue = "exact"

\* snapshot tables that differ from the stored one only in the values of h's rows
OtherValues == {0, 100, 200, 700}

SnapshotsDifferingFor(h) ==
  LET rowsOfH == {r \in portfolioSnapshots : r.userId = h}
  IN {(portfolioSnapshots \ rowsOfH)
        \cup {[r EXCEPT !.totalValue = f[r]] : r \in rowsOfH} :
      f \in [rowsOfH -> OtherValues]}

\* C6: a hidden member's listing is empty, and changing only the snapshot
\* values of a hidden member other than the requester leaves squadAverage,
\* squadTotal and members[] of the response unchanged.
C6_AggregationExclusion ==
  SquadHistoryAnswered =>
    \A i \in 1..Len(response.body.members) :
      LET m == response.body.members[i]
      IN m.privacyLevel = "hidden" =>
           /\ m.history = <<>>
           /\ m.memberId # response.sessionUser =>
                \A snaps \in SnapshotsDifferingFor(m.memberId) :
                  LET other == squadHistoryGET(response.sessionUser, response.period,
                                 privacyPolicy, workspaceMembers, privacyDefaults, snaps)
                  IN /\ other.squadAverage = response.body.squadAverage
                     /\ other.squadTotal = response.body.squadTotal
                     /\ other.members = response.body.members

\* a hidden member with a snapshot inside the period, next to a visible member with data
C6_Witness ==
  /\ SquadHistoryAnswered
  /\ Len(response.body.squadTotal) > 0
  /\ \E i \in 1..Len(response.body.members) :
       LET m == response.body.members[i]
       IN /\ m.privacyLevel = "hidden"
          /\ m.memberId # response.sessionUser
          /\ \E r \in portfolioSnapshots :
               r.userId = m.memberId /\ r.snapshotDate >= periodStart(response.period)

\* C7: squad history and leaderboard answer 403 to an authenticated requester
\* who is not a member, resolve nobody's privacy and return no member data.
C7_MembershipBeforeResolution ==
  (/\ response # None
   /\ response.handler \in {"squadHistory", "leaderboard"}
   /\ response.sessionUser # NoSession
   /\ ~StoredMember(response.sessionUser)
   /\ response.handler = "squadHistory" => response.period \in TimePeriods)
    => /\ response.body.status = 403
       /\ response.body.resolvedFor = {}
       /\ DOMAIN response.body = {"status", "error", "resolvedFor"}

\* ================================================ properties: formatters
FormattedValue(r) == r # None /\ r.handler = "formatPortfolioValue"

\* the multiple of 10000 at or below v
BucketFloor(v) == CHOOSE l \in {b * 10000 : b \in (0 - MaxBuckets - 2)..(MaxBuckets + 2)} :
                    l <= v /\ v < l + 10000

ValueDisclosure(r) ==
  CASE r.privacy = "approximate" ->
         /\ r.body.exact = Null
         /\ r.body.range # Null
         /\ r.body.range.lower % 10000 = 0
         /\ r.body.range.upper = r.body.range.lower + 10000
         /\ r.body.range.lower <= r.value
         /\ r.value < r.body.range.upper
    [] r.privacy = "hidden" ->
         r.body = [display |-> [style |-> "Hidden"], exact |-> Null, range |-> Null]
    [] r.privacy = "exact" -> r.body.exact = Num(r.value)

\* C11: formatPortfolioValue in tier approximate withholds the number and
\* returns the 10000-wide bucket [lower, lower + 10000] that holds the value,
\* lower a multiple of 10000, and two values of one bucket get the same
\* result; in tier hidden it returns the fixed placeholder with no number and
\* no range; only tier exact returns the raw number.
C11_BucketDisclosure ==
  /\ [](FormattedValue(response) => ValueDisclosure(response))
  /\ [][(/\ FormattedValue(response) /\ FormattedValue(response')
         /\ response.privacy = "approximate" /\ response'.privacy = "approximate"
         /\ BucketFloor(response.value) = BucketFloor(response'.value))
        => response'.body = response.body]_vars

C11_Witness ==
  /\ FormattedValue(response)
  /\ response.privacy = "approximate"
  /\ response.value = 25000
  /\ response.body.range = [lower |-> 20000, upper |-> 30000]
  /\ response.body.exact = Null

FilteredPositions(r) == r # None /\ r.handler = "filterPositions"

TickerFields == {"symbol", "securityName", "securityType"}

\* C12: filterPositions returns its input unchanged in tier full, one entry
\* per input position in the input's order carrying only symbol, securityName
\* and securityType in tier tickers_only, and the empty list in tier hidden.
C12_PositionsProjection ==
  FilteredPositions(response) =>
    CASE response.privacy = "full" -> response.body = response.positions
      [] response.privacy = "tickers_only" ->
           /\ Len(response.body) = Len(response.positions)
           /\ \A i \in 1..Len(response.positions) :
                /\ DOMAIN response.body[i] = TickerFields
                /\ \A k \in TickerFields : response.body[i][k] = response.positions[i][k]
      [] response.privacy = "hidden" -> response.body = <<>>

C12_Witness ==
  /\ FilteredPositions(response)
  /\ response.privacy = "tickers_only"
  /\ Len(response.positions) = 2
  /\ response.positions[1].symbol # response.positions[2].symbol
  /\ response.body[1].symbol = response.positions[1].symbol
  /\ response.positions[1].quantity > 0

\* ============================================= properties: squad history
VisibleListed(b) == {i \in 1..Len(b.members) : b.members[i].privacyLevel # "hidden"}

ListedDates(b, i) == {b.members[i].history[j].date : j \in 1..Len(b.members[i].history)}

VisibleDates(b) == UNION {ListedDates(b, i) : i \in VisibleListed(b)}

ListedWith(b, d) == {i \in VisibleListed(b) : d \in ListedDates(b, i)}

ListedPercent(b, i, d) ==
  LET h == b.members[i].history
  IN h[CHOOSE j \in 1..Len(h) : h[j].date = d].percentChange

MeanPercent(b, d) ==
  IF ListedWith(b, d) = {} THEN Num(0)
  ELSE RatDivInt(SumRats([i \in 1..Len(b.members) |->
                            IF i \in ListedWith(b, d) THEN ListedPercent(b, i, d)
                            ELSE Num(0)]),
                 Cardinality(ListedWith(b, d)))

\* C13: squadAverage has one entry per date of the union of the visible
\* members' history dates, ascending, each the mean of percentChange over the
\* visible members with a point at that date (0 when there is none), and it
\* is empty when no member is visible.
C13_SquadAverage ==
  SquadHistoryAnswered =>
    LET b == response.body
        avg == b.squadAverage
    IN /\ {avg[k].date : k \in 1..Len(avg)} = VisibleDates(b)
       /\ \A k \in 1..(Len(avg) - 1) : avg[k].date < avg[k + 1].date
       /\ \A k \in 1..Len(avg) : avg[k].percentChange = MeanPercent(b, avg[k].date)
       /\ (VisibleListed(b) = {} => avg = <<>>)

C13_Witness ==
  /\ SquadHistoryAnswered
  /\ \E k \in 1..Len(response.body.squadAverage) :
       LET e == response.body.squadAverage[k]
       IN /\ e.percentChange = Num(50)
          /\ Cardinality(ListedWith(response.body, e.date)) = 2
          /\ Cardinality(VisibleListed(response.body)) = 3

\* the stored value of member u on the day that starts at d, within the period
DayTotal(u, d) ==
  SumTotalValue({r \in portfolioSnapshots :
                   /\ r.userId = u
                   /\ r.snapshotDate >= periodStart(response.period)
                   /\ dayStart(dateKey(r.snapshotDate)) = d})

\* C14: squadTotal has one entry per date of the union of the visible
\* members' history dates, ascending, each the sum of value over the visible
\* members with a point at that date, a member without one adding nothing;
\* squadTotal and squadAverage carry the same date sequence.
C14_SquadTotal ==
  SquadHistoryAnswered =>
    LET b == response.body
        tot == b.squadTotal
    IN /\ {tot[k].date : k \in 1..Len(tot)} = VisibleDates(b)
       /\ \A k \in 1..(Len(tot) - 1) : tot[k].date < tot[k + 1].date
       /\ \A k \in 1..Len(tot) :
            tot[k].value =
              SumInts([i \in 1..Len(b.members) |->
                         IF i \in ListedWith(b, tot[k].date)
                           THEN DayTotal(b.members[i].memberId, tot[k].date) ELSE 0])
       /\ [k \in 1..Len(tot) |-> tot[k].date]
            = [k \in 1..Len(b.squadAverage) |-> b.squadAverage[k].date]

C14_Witness ==
  /\ SquadHistoryAnswered
  /\ Len(response.body.squadTotal) = 2
  /\ \E k \in 1..Len(response.body.squadTotal) :
       LET e == response.body.squadTotal[k]
       IN /\ e.value = 300
          /\ Cardinality(ListedWith(response.body, e.date)) = 2
          /\ Cardinality(VisibleListed(response.body)) = 3

\* the days, within the period, on which member u has a stored snapshot
OwnDays(u) ==
  {dayStart(dateKey(r.snapshotDate)) :
     r \in {x \in portfolioSnapshots :
              x.userId = u /\ x.snapshotDate >= periodStart(response.period)}}

OtherRows(u) == {r \in portfolioSnapshots : r.userId # u}

\* C15: yourHistory is the requester's own series and nothing else: one point
\* per day of the requester's own snapshots with that day's own value and the
\* change from the requester's first day, whatever the other members store or
\* share, also when the requester's entry in members[] is withheld as hidden.
C15_YourHistoryOwn ==
  SquadHistoryAnswered =>
    LET yh == response.body.yourHistory
        su == response.sessionUser
        base == IF Len(yh) > 0 THEN DayTotal(su, yh[1].date) ELSE 0
    IN /\ {yh[k].date : k \in 1..Len(yh)} = OwnDays(su)
       /\ \A k \in 1..(Len(yh) - 1) : yh[k].date < yh[k + 1].date
       /\ \A k \in 1..Len(yh) :
            /\ DOMAIN yh[k] = {"date", "value", "percentChange"}
            /\ yh[k].value = DayTotal(su, yh[k].date)
            /\ yh[k].percentChange =
                 IF base > 0 THEN Rat((yh[k].value - base) * 100, base) ELSE Num(0)

C15_Witness ==
  /\ SquadHistoryAnswered
  /\ Len(response.body.yourHistory) = 2
  /\ response.body.yourHistory[2].percentChange = Num(100)
  /\ \E i \in 1..Len(response.body.members) :
       /\ response.body.members[i].memberId = response.sessionUser
       /\ response.body.members[i].privacyLevel = "hidden"
       /\ response.body.members[i].history = <<>>
  /\ \E r \in OtherRows(response.sessionUser) :
       r.snapshotDate >= periodStart(response.period)
  /\ Len(response.body.squadTotal) > 0

\* ========================================== properties: personal history
\* the handler sampled a history for a registered user
Sampled ==
  /\ response # None
  /\ response.handler = "portfolioHistory"
  /\ response.body.status = 200
  /\ response.sessionUser \in snaptradeUsers

\* the number of points configured for a period
PointCount(period) ==
  CASE period = "1D" -> 1 [] period = "1W" -> 7 [] period = "1M" -> 5
    [] period = "3M" -> 13 [] period = "6M" -> 26 [] period = "1Y" -> 12
    [] period = "YTD" -> 12

\* C16: the sampler emits at most the configured number of points of the
\* period (1D: 1, 1W: 7, 1M: 5, 3M: 13, 6M: 26, 1Y: 12, YTD: 12), the point
\* for now being one of them.
C16_PointCount ==
  Sampled =>
    LET h == response.body.history
    IN /\ Len(h) <= PointCount(response.period)
       /\ \E i \in 1..Len(h) : h[i].date = dateKey(Now)

\* the instant the requester joined: the first connection or the first
\* snapshot, whichever is earlier, and the present when there is neither
JoinInstant ==
  LET su == response.sessionUser
      seen == {c.createdAt : c \in {x \in brokerageConnections : x.userId = su}}
                \cup {r.snapshotDate : r \in {x \in portfolioSnapshots : x.userId = su}}
  IN IF seen = {} THEN Now ELSE CHOOSE t \in seen : \A o \in seen : t <= o

\* C17: the sampled history is non-empty, strictly ascending by calendar day,
\* starts no earlier than the calendar day of max(period start, join date),
\* and ends with the current day.
C17_HistoryShape ==
  Sampled =>
    LET h == response.body.history
    IN /\ Len(h) > 0
       /\ \A i \in 1..(Len(h) - 1) : h[i].date < h[i + 1].date
       /\ h[1].date >= dateKey(Max(getPeriodStartDate(response.period, Now), JoinInstant))
       /\ h[Len(h)].date = dateKey(Now)

C17_Witness ==
  /\ Sampled
  /\ response.period = "1M"
  /\ JoinInstant = dayStart(Today - 5) + 1
  /\ Len(response.body.history) = 6
  /\ response.body.history[1].date = Today - 5
  /\ response.body.history[6].date = Today

\* the requester's stored snapshots of calendar day d
StoredOn(d) ==
  {r \in portfolioSnapshots : r.userId = response.sessionUser /\ dateKey(r.snapshotDate) = d}

\* the days of the sampled window on which the requester has a snapshot
GroupedDays ==
  {dateKey(r.snapshotDate) :
     r \in {x \in portfolioSnapshots :
              /\ x.userId = response.sessionUser
              /\ dateKey(x.snapshotDate) >= response.body.history[1].date}}

DaySums(d) == [value |-> SumTotalValue(StoredOn(d)), pl |-> SumTotalPL(StoredOn(d))]

\* C18: a sample date with a snapshot of that calendar day gets the sums of
\* all snapshots of that day with isInterpolated = false; any other sample
\* date gets the sums of the nearest earlier day with snapshots, or of the
\* nearest later one when there is no earlier, with isInterpolated = true.
C18_FillRule ==
  Sampled =>
    \A i \in 1..Len(response.body.history) :
      LET p == response.body.history[i]
          earlier == {d \in GroupedDays : d < p.date}
          later == {d \in GroupedDays : d > p.date}
          filled(d) == p.value = DaySums(d).value /\ p.pl = DaySums(d).pl
      IN IF p.date \in GroupedDays THEN ~p.isInterpolated /\ filled(p.date)
         ELSE /\ p.isInterpolated
              /\ earlier # {} => filled(CHOOSE d \in earlier : \A o \in earlier : o <= d)
              /\ (earlier = {} /\ later # {})
                   => filled(CHOOSE d \in later : \A o \in later : d <= o)

\* the requester has a connection or a snapshot to date the join by
HasJoined ==
  \/ \E c \in brokerageConnections : c.userId = response.sessionUser
  \/ \E r \in portfolioSnapshots : r.userId = response.sessionUser

C20_PlPercentGuarded ==
  Sampled =>
    \A i \in 1..Len(response.body.history) :
      LET p == response.body.history[i]
      IN /\ p.plPercent.d # 0
         /\ IF Abs(p.value - p.pl) > 1
              THEN p.plPercent = Rat(p.pl * 100, p.value - p.pl)
              ELSE p.plPercent = Num(0)

C20_Witness ==
  /\ Sampled
  /\ \E i \in 1..Len(response.body.history) :
       LET p == response.body.history[i]
       IN p.value = p.pl /\ p.pl > 0 /\ p.plPercent = Num(0)
  /\ \E i \in 1..Len(response.body.history) :
       LET p == response.body.history[i]
       IN p.value = 7500 /\ p.pl = -2500 /\ p.plPercent = Num(-25)

\* the personal history handler answered 200, sampled or not
HistoryAnswered ==
  response # None /\ response.handler = "portfolioHistory" /\ response.body.status = 200

\* C21: actualPoints is the number of points with isInterpolated = false,
\* totalPoints the number of points, actualPoints <= totalPoints, and coverage
\* is actualPoints / totalPoints * 100 rounded to the nearest integer (half
\* up), 0 without points, hence an integer in 0..100.
C21_DataQuality ==
  HistoryAnswered =>
    LET h == response.body.history
        q == response.body.dataQuality
    IN /\ q.actualPoints = Cardinality({i \in 1..Len(h) : ~h[i].isInterpolated})
       /\ q.totalPoints = Len(h)
       /\ q.actualPoints <= q.totalPoints
       /\ q.coverage \in 0..100
       /\ IF q.totalPoints = 0 THEN q.coverage = 0
          ELSE /\ (2 * q.coverage - 1) * q.totalPoints <= 200 * q.actualPoints
               /\ 200 * q.actualPoints < (2 * q.coverage + 1) * q.totalPoints

C21_Witness ==
  /\ HistoryAnswered
  /\ response.body.dataQuality = [actualPoints |-> 1, totalPoints |-> 8, coverage |-> 13]

\* ============================================ properties: period parameter
ClosedPeriodSet == {"1D", "1W", "1M", "3M", "6M", "1Y", "YTD"}

\* a history handler answered an authenticated request
HistoryRequested ==
  /\ response # None
  /\ response.handler \in {"squadHistory", "portfolioHistory"}
  /\ response.sessionUser # NoSession

\* no period value was sent
PeriodAbsent == response.periodParam \in {Undefined, ""}

\* the body of a validation error: nothing resolved, sampled or aggregated
NothingComputed ==
  /\ DOMAIN response.body \subseteq {"status", "error", "resolvedFor"}
  /\ "resolvedFor" \in DOMAIN response.body => response.body.resolvedFor = {}

C23_ParseNormalises ==
  (response # None /\ response.handler = "parsePrivacySettings") =>
    /\ DOMAIN response.body = Fields
    /\ \A f \in Fields :
         /\ response.body[f] \in ScaleOf(f)
         /\ response.body[f] =
              IF response.json \notin {Null, Scalar} /\ Get(response.json, f) \in ScaleOf(f)
                THEN response.json[f]
                ELSE DEFAULT_PRIVACY[f]

\* ======================================= properties: user privacy defaults
\* all five fields present, each with a value of its scale
CompleteSettings(x) ==
  /\ x \notin {Null, Scalar}
  /\ Fields \subseteq DOMAIN x
  /\ \A f \in Fields : x[f] \in ScaleOf(f)

PutAnswered(r) ==
  r # None /\ r.handler = "userPrivacyPUT" /\ r.sessionUser # NoSession

GetAnswered(r) ==
  r # None /\ r.handler = "userPrivacyGET" /\ r.sessionUser # NoSession

\* C24: PUT /api/user/privacy stores the submitted settings only when all
\* five fields are present with values of their scales, and otherwise
\* answers 400 leaving the stored defaults as they were; a GET after a
\* successful PUT returns the submitted settings.
C24_WriteValidation ==
  /\ [](PutAnswered(response) =>
          IF CompleteSettings(response.submitted)
            THEN /\ response.body.status = 200
                 /\ privacyDefaults[response.sessionUser] = response.submitted
            ELSE response.body.status = 400)
  /\ [][(PutAnswered(response') /\ response'.body.status = 400)
          => privacyDefaults' = privacyDefaults]_vars
  /\ [][(/\ PutAnswered(response) /\ response.body.status = 200
         /\ GetAnswered(response') /\ response'.sessionUser = response.sessionUser)
          => response'.body.privacyDefaults = response.submitted]_vars

C24_Witness ==
  /\ PutAnswered(response)
  /\ response.sessionUser = "u1"
  /\ response.submitted = Spread(OpenSettings, [positions |-> "public"])
  /\ response.body.status = 400
  /\ privacyDefaults["u1"] = HiddenSettings

\* ============================================ properties: brokerage sync
\* the snapshots of one account on one calendar day
SnapshotsOn(accountId, day) ==
  {s \in portfolioSnapshots : s.accountId = accountId /\ dateKey(s.snapshotDate) = day}

\* C25: whatever the interleaving of createSnapshots runs for one user, each
\* brokerage account has at most one portfolio snapshot per calendar day
C25_OneSnapshotPerAccountDay ==
  \A s \in portfolioSnapshots : Cardinality(SnapshotsOn(s.accountId, dateKey(s.snapshotDate))) <= 1

\* ================================================ properties: leaderboard
\* the accounts with the same totals and other positions, held in the first one
WithPositions(accounts, positions) ==
  [i \in 1..Len(accounts) |->
     [accounts[i] EXCEPT !.positions = IF i = 1 THEN positions ELSE <<>>]]

\* position lists a member's accounts could hold instead
OtherPositionLists ==
  {<<>>, <<Position("AAPL", 10, 500)>>, <<Position("MSFT", 3, 500)>>,
   <<Position("AAPL", 5, 250), Position("TSLA", 5, 250)>>}

\* the stored row of a listed member
RowOf(u) ==
  workspaceMembers[CHOOSE i \in 1..Len(workspaceMembers) : workspaceMembers[i].userId = u]

\* C26: for a member whose resolved positions tier is hidden, the leaderboard
\* entry is the same for any other position list with the same account totals:
\* nothing derived from the positions, contents or count, is returned.
C26_HiddenPositionsNoInfluence ==
  LeaderboardAnswered =>
    \A i \in 1..Len(response.body.leaderboard) :
      LET entry == response.body.leaderboard[i]
          privacy == resolvePrivacy(privacyPolicy, workspaceMembers, privacyDefaults,
                                    entry.userId)
      IN entry.privacySettings.positions = "hidden" =>
           \A positions \in OtherPositionLists :
             Without(entry, "rank") =
               leaderboardEntry(RowOf(entry.userId), privacy,
                                WithPositions(brokerageAccounts[entry.userId], positions))

\* C30: stats.combinedValue is the sum over the listed members of the value they
\* were sorted by (exact value, midpoint of the range, 0 when hidden), and no
\* returned entry carries that sort value.
C30_CombinedValue ==
  LeaderboardAnswered =>
    LET board == response.body.leaderboard
    IN /\ response.body.stats.combinedValue =
            SumRats([i \in 1..Len(board) |-> sortValue(board[i])])
       /\ \A i \in 1..Len(board) : "sortValue" \notin DOMAIN board[i]

\* ================================== properties: squad history disclosure
\* C27: the squad history discloses a member's exact portfolio value to another
\* member only if that member's effective portfolioValue is exact: no squadTotal
\* entry is the stored value of a single other member whose portfolioValue is
\* not exact, the case of a sole visible contributor included.
C27_ExactValuesOnlyWhenExact ==
  SquadHistoryAnswered =>
    LET b == response.body
    IN \A k \in 1..Len(b.squadTotal) : \A i \in 1..Len(b.members) :
         (/\ b.members[i].memberId # response.sessionUser
          /\ memberEffectiveSettings(privacyPolicy, workspaceMembers[i],
                                     privacyDefaults).portfolioValue # "exact"
          /\ ListedWith(b, b.squadTotal[k].date) = {i})
           => b.squadTotal[k].value # DayTotal(b.members[i].memberId, b.squadTotal[k].date)

\* ================================================ properties: activity feed
FeedAnswered ==
  response # None /\ response.handler = "activityFeed" /\ response.body.status = 200

\* C28: a feed entry of another member's trade carries quantity, price or
\* value only if that member's activity setting is full (none for
\* without_amounts), and no activity is stored for a user whose setting is hidden.
C28_ActivityAmounts ==
  /\ \A i \in 1..Len(workspaceActivities) :
       canShowActivity(privacyDefaults[workspaceActivities[i].userId])
  /\ FeedAnswered =>
       \A i \in 1..Len(response.body.activities) :
         LET a == response.body.activities[i]
         IN (a.userId # response.sessionUser
             /\ ~canShowActivityAmounts(privacyDefaults[a.userId]))
              => a.quantity = Null /\ a.price = Null /\ a.value = Null

\* ============================================== properties: workspace join
MembershipsOf(u) == {i \in 1..Len(workspaceMembers) : workspaceMembers[i].userId = u}

\* request r is answered in this step
JoinAnswers(r) == inFlight[r].pc \notin {"idle", "done"} /\ inFlight'[r].pc = "done"

\* C29: there is at most one membership per user; a join that creates the
\* membership of a non-member answers 201 with role MEMBER; a join answered
\* while its user is a member already answers 409 and leaves the memberships
\* as they are.
C29_JoinUniqueness ==
  /\ [](\A u \in Users : Cardinality(MembershipsOf(u)) <= 1)
  /\ [][\A r \in JoinRequests :
          JoinAnswers(r) =>
            IF isMember(workspaceMembers, inFlight[r].user)
              THEN inFlight'[r].status = 409 /\ workspaceMembers' = workspaceMembers
              ELSE /\ inFlight'[r].status = 201
                   /\ inFlight'[r].role = "MEMBER"
                   /\ workspaceMembers' =
                        Append(workspaceMembers, MemberRow(inFlight[r].user, Null))]_vars

====
